---- MODULE Spec2Model ----
(***************************************************************************)
(* Graph-visualizer: the command interpreter (CommandParser), the          *)
(* workspace service and the graph model, as a state machine.              *)
(*                                                                         *)
(* Text is modelled as TLA+ strings, one character per position, so that   *)
(* tokenizing, splitting and pattern matching are computed, not assumed.   *)
(* The alphabet of the command texts has no backslash, so the escape       *)
(* rules of the tokenizer are not exercised.                               *)
(***************************************************************************)
EXTENDS Integers, Sequences, FiniteSets, TLC

(***************************************************************************)
(* Python values                                                           *)
(***************************************************************************)
None == [py |-> "None"]

NoExc == "none"

(***************************************************************************)
(* str helpers                                                             *)
(***************************************************************************)
CharAt(s, i) == SubSeq(s, i, i)

StartsWith(s, p) == Len(s) >= Len(p) /\ SubSeq(s, 1, Len(p)) = p

StartsWithAt(s, i, p) == i + Len(p) - 1 <= Len(s) /\ SubSeq(s, i, i + Len(p) - 1) = p

EndsWith(s, p) == Len(s) >= Len(p) /\ SubSeq(s, Len(s) - Len(p) + 1, Len(s)) = p

\* str.isspace on one character
IsSpaceChar(c) == c \in {" ", "\n", "\t", "\r"}

UpperLetters == "ABCDEFGHIJKLMNOPQRSTUVWXYZ"
LowerLetters == "abcdefghijklmnopqrstuvwxyz"
Digits == "0123456789"

RECURSIVE IndexOf(_, _, _)
\* str.find(c, i - 1) + 1: the first position >= i holding character c, 0 when there is none
IndexOf(s, c, i) ==
    IF i > Len(s) THEN 0
    ELSE IF CharAt(s, i) = c THEN i
    ELSE IndexOf(s, c, i + 1)

Contains(s, c) == IndexOf(s, c, 1) # 0

LowerChar(c) ==
    LET p == IndexOf(UpperLetters, c, 1)
    IN  IF p = 0 THEN c ELSE CharAt(LowerLetters, p)

RECURSIVE Lower(_)
\* str.lower()
Lower(s) == IF s = "" THEN "" ELSE LowerChar(Head(s)) \o Lower(Tail(s))

\* str.isspace(): non-empty and whitespace only
AllSpace(s) == \A i \in 1..Len(s) : IsSpaceChar(CharAt(s, i))
IsSpace(s) == s # "" /\ AllSpace(s)

RECURSIVE LStrip(_)
LStrip(s) == IF s # "" /\ IsSpaceChar(Head(s)) THEN LStrip(Tail(s)) ELSE s

RECURSIVE RStrip(_)
RStrip(s) ==
    IF s # "" /\ IsSpaceChar(CharAt(s, Len(s))) THEN RStrip(SubSeq(s, 1, Len(s) - 1)) ELSE s

\* str.strip()
Strip(s) == RStrip(LStrip(s))

RECURSIVE Join(_, _)
\* sep.join(tokens)
Join(sep, toks) ==
    IF toks = <<>> THEN ""
    ELSE IF Len(toks) = 1 THEN toks[1]
    ELSE toks[1] \o sep \o Join(sep, Tail(toks))

\* tokens[n:]
Drop(seq, n) == SubSeq(seq, n + 1, Len(seq))

(***************************************************************************)
(* shlex.split(command): POSIX rules, whitespace separated, no comments    *)
(***************************************************************************)
DQ == "\""
SQ == "'"
IsQuoteChar(c) == c = DQ \/ c = SQ

ShlexEmit(acc, tok, quoted) == IF tok # "" \/ quoted THEN Append(acc, tok) ELSE acc

RECURSIVE ShlexRun(_, _, _, _, _, _)
\* state: "ws" between tokens, "a" inside a word, or the open quote character
ShlexRun(s, i, state, tok, quoted, acc) ==
    IF i > Len(s)
    THEN IF IsQuoteChar(state)
         THEN [exc |-> "ValueError", msg |-> "No closing quotation", tokens |-> <<>>]
         ELSE [exc |-> NoExc, msg |-> "", tokens |-> ShlexEmit(acc, tok, quoted)]
    ELSE LET c == CharAt(s, i) IN
         IF state = "ws"
         THEN IF IsSpaceChar(c) THEN ShlexRun(s, i + 1, "ws", "", FALSE, acc)
              ELSE IF IsQuoteChar(c) THEN ShlexRun(s, i + 1, c, "", TRUE, acc)
              ELSE ShlexRun(s, i + 1, "a", c, FALSE, acc)
         ELSE IF IsQuoteChar(state)
         THEN IF c = state THEN ShlexRun(s, i + 1, "a", tok, TRUE, acc)
              ELSE ShlexRun(s, i + 1, state, tok \o c, TRUE, acc)
         ELSE IF IsSpaceChar(c) THEN ShlexRun(s, i + 1, "ws", "", FALSE, ShlexEmit(acc, tok, quoted))
              ELSE IF IsQuoteChar(c) THEN ShlexRun(s, i + 1, c, tok, TRUE, acc)
              ELSE ShlexRun(s, i + 1, "a", tok \o c, quoted, acc)

ShlexSplit(s) == ShlexRun(s, 1, "ws", "", FALSE, <<>>)

(***************************************************************************)
(* re.findall(pattern, expr) for the filter pattern                        *)
(*   (\w+)\s*(==|!=|<=|>=|<|>|=)\s*("[^"]+"|'[^']+'|\S+)                   *)
(* a backtracking matcher: alternatives in pattern order, greedy repeats   *)
(***************************************************************************)
WordChars == LowerLetters \o UpperLetters \o Digits \o "_"
IsWordChar(c) == Contains(WordChars, c)

FilterOperators == <<"==", "!=", "<=", ">=", "<", ">", "=">>

NoMatch == [ok |-> FALSE]

RECURSIVE WordRunEnd(_, _)
\* last position of the run of \w characters that starts at p (p - 1 when empty)
WordRunEnd(s, p) ==
    IF p <= Len(s) /\ IsWordChar(CharAt(s, p)) THEN WordRunEnd(s, p + 1) ELSE p - 1

RECURSIVE SpaceRunEnd(_, _)
SpaceRunEnd(s, p) ==
    IF p <= Len(s) /\ IsSpaceChar(CharAt(s, p)) THEN SpaceRunEnd(s, p + 1) ELSE p - 1

RECURSIVE NonSpaceRunEnd(_, _)
NonSpaceRunEnd(s, p) ==
    IF p <= Len(s) /\ ~IsSpaceChar(CharAt(s, p)) THEN NonSpaceRunEnd(s, p + 1) ELSE p - 1

\* a quoted alternative needs its closing quote at r, with one character or more before it
QuotedEndAt(q, r) == IF r > q + 1 THEN r ELSE 0

\* "[^"]+" or '[^']+' at q: position of the closing quote, 0 when this alternative fails
QuotedValueEnd(s, q, quote) ==
    IF q <= Len(s) /\ CharAt(s, q) = quote THEN QuotedEndAt(q, IndexOf(s, quote, q + 1)) ELSE 0

\* \S+ at q: the end e of the run, 0 when the run is empty
RunValueEnd(q, e) == IF e >= q THEN e ELSE 0

\* the first alternative that matches
FirstAlternative(a, b, c) == IF a # 0 THEN a ELSE IF b # 0 THEN b ELSE c

\* group 3 at q: end position of the value, 0 when no alternative matches
ValueEnd(s, q) ==
    FirstAlternative(QuotedValueEnd(s, q, DQ), QuotedValueEnd(s, q, SQ),
                     RunValueEnd(q, NonSpaceRunEnd(s, q)))

RECURSIVE ValueAfterSpaces(_, _, _)
RECURSIVE ValueTry(_, _, _, _)
ValueTry(s, q, skip, e) ==
    IF e # 0 THEN [ok |-> TRUE, from |-> q + skip, to |-> e] ELSE ValueAfterSpaces(s, q, skip - 1)

\* \s* then group 3, from q: the longest run of spaces first, then shorter ones
ValueAfterSpaces(s, q, skip) ==
    IF skip < 0 THEN NoMatch ELSE ValueTry(s, q, skip, ValueEnd(s, q + skip))

ValueAfterSpacesFrom(s, q) == ValueAfterSpaces(s, q, SpaceRunEnd(s, q) - q + 1)

RECURSIVE OperatorAt(_, _, _)
RECURSIVE OperatorTry(_, _, _, _, _)
OperatorTry(s, q, k, op, v) ==
    IF StartsWithAt(s, q, op) /\ v.ok
    THEN [ok |-> TRUE, op |-> op, value |-> SubSeq(s, v.from, v.to), to |-> v.to]
    ELSE OperatorAt(s, q, k + 1)

\* group 2 at q and the rest of the pattern: alternatives k, k+1, ... in order
OperatorAt(s, q, k) ==
    IF k > Len(FilterOperators) THEN NoMatch
    ELSE OperatorTry(s, q, k, FilterOperators[k], ValueAfterSpacesFrom(s, q + Len(FilterOperators[k])))

RECURSIVE OperatorAfterSpaces(_, _, _)
RECURSIVE OperatorSkipTry(_, _, _, _)
OperatorSkipTry(s, q, skip, m) == IF m.ok THEN m ELSE OperatorAfterSpaces(s, q, skip - 1)

\* \s* then group 2, from q
OperatorAfterSpaces(s, q, skip) ==
    IF skip < 0 THEN NoMatch ELSE OperatorSkipTry(s, q, skip, OperatorAt(s, q + skip, 1))

RECURSIVE MatchFrom(_, _, _)
RECURSIVE MatchTry(_, _, _, _)
MatchTry(s, p, e, m) ==
    IF m.ok THEN [ok |-> TRUE, attr |-> SubSeq(s, p, e), op |-> m.op, value |-> m.value, to |-> m.to]
    ELSE MatchFrom(s, p, e - 1)

\* group 1 is s[p..e]: the longest \w run first, then shorter ones
MatchFrom(s, p, e) ==
    IF e < p THEN NoMatch
    ELSE MatchTry(s, p, e, OperatorAfterSpaces(s, e + 1, SpaceRunEnd(s, e + 1) - e))

MatchAt(s, p) == MatchFrom(s, p, WordRunEnd(s, p))

RECURSIVE FindAll(_, _, _)
RECURSIVE FindStep(_, _, _, _)
FindStep(s, p, acc, m) ==
    IF m.ok THEN FindAll(s, m.to + 1, Append(acc, <<m.attr, m.op, m.value>>))
    ELSE FindAll(s, p + 1, acc)

\* re.findall: leftmost matches, non-overlapping, as <<attr, op, value>> groups
FindAll(s, p, acc) == IF p > Len(s) THEN acc ELSE FindStep(s, p, acc, MatchAt(s, p))

(***************************************************************************)
(* The command texts a caller issues                                       *)
(***************************************************************************)
NodeCommands ==
    { "create node --id=a",
      "create node --id=a --property k=v",
      "Create Node --id=b",
      "create node --property k=v",
      "create node --id=a --property",
      "create node --id=a --property kv",
      "edit node --id=a --property k=w",
      "edit node --id=a --unset-property k",
      "edit node --id=a --property k=v --unset-property j",
      "edit node --id=a --unset-property k --property k=v",
      "edit node --id=c --property k=v",
      "delete node --id=a",
      "delete node --id=b",
      "delete node --id=c",
      "delete node a" }

EdgeCommands ==
    { "create edge a b",
      "create edge b a",
      "create edge a b --undirected",
      "create edge a b --property k=v",
      "create edge a",
      "create edge a b c",
      "create edge a c",
      "create edge c a",
      "edit edge a b --property k=v",
      "edit edge a b --unset-property k",
      "edit edge a b --property k=v --unset-property j",
      "edit edge a b --undirected",
      "edit edge a b --directed",
      "edit edge a",
      "delete edge a b",
      "delete edge b a",
      "delete edge a b c" }

OtherCommands ==
    { "clear graph",
      "clear",
      "",
      "  ",
      "bogus a",
      "create thing --id=a",
      "edit",
      "delete thing",
      "create node --id=\"a" }

ConditionCommands ==
    { "filter age > 28",
      "filter name == \"John Smith\"",
      "filter name == '\"John Smith\"'",
      "filter a=1 b!=2",
      "filter age",
      "filter",
      "search Hello World",
      "search" }

CommandTexts == NodeCommands \cup EdgeCommands \cup OtherCommands \cup ConditionCommands

\* the commands of the specification of edit node: two attributes k and j on two nodes
EditCommands ==
    { "create node --id=a",
      "create node --id=a --property k=v --property j=u",
      "create node --id=b --property k=w",
      "edit node --id=a --property k=w",
      "edit node --id=a --property j=u",
      "edit node --id=a --unset-property j",
      "edit node --id=a --unset-property k --property k=v",
      "edit node --id=a --property k=v --unset-property k",
      "edit node --id=b --unset-property k --property k=v",
      "edit node --id=c --property k=v --unset-property k",
      "edit node --property k=v --unset-property k",
      "delete node --id=a",
      "delete node --id=b" }

\* the commands passed to execute_command
ExecuteTexts ==
    { "create node --id=a", "clear graph", "filter age > 28", "search Hello World",
      "edit node --id=a --property k=v --unset-property j", "bogus a" }

\* the commands that build the graph in the specification of the service
SetupTexts ==
    { "create node --id=a", "Create Node --id=b", "create edge a b", "edit node --id=a --property k=w",
      "delete edge a b" }

\* the commands that build the graph on which the rejected commands are tried
BuildCommands ==
    { "create node --id=a",
      "create node --id=b --property k=v",
      "create edge a b",
      "edit node --id=a --property k=w",
      "edit edge a b --property k=v",
      "delete edge a b",
      "delete node --id=b",
      "clear graph" }

\* commands with an unknown verb, an unknown or missing target, a --property without a
\* key=value token, an --unset-property without a name, or no --id= where one is required
RejectedCommands ==
    { "bogus a",
      "remove node --id=a",
      "create thing --id=c",
      "Edit graph --id=a --property k=w",
      "delete thing a",
      "delete",
      "create node --id=c --property",
      "create node --id=c --property kv",
      "edit node --id=a --property k=w --property",
      "edit node --id=a --property k=w --property j",
      "edit node --id=a --property --unset-property k",
      "edit edge a b --property",
      "edit edge a b --property k=w --property kv",
      "create edge b a --property kv",
      "edit node --id=a --unset-property",
      "edit node --id=a --property k=w --unset-property",
      "edit edge a b --property k=w --unset-property",
      "create node --property k=v",
      "create node --ID=c",
      "edit node --property k=w",
      "edit node a --property k=w",
      "delete node a",
      "delete node b" }

\* the commands of a session on one workspace: nodes and edges with an attribute age
SessionCommands ==
    { "create node --id=a --property age=30",
      "create node --id=b --property age=25",
      "edit node --id=b --property age=30.0",
      "create edge a b --property age=30",
      "edit edge a b --property age=9",
      "delete edge a b",
      "delete node --id=b",
      "clear graph" }

(***************************************************************************)
(* The pure text functions, tabulated once over the texts in use           *)
(***************************************************************************)
ShlexTable ==
    [c \in CommandTexts \cup ExecuteTexts \cup EditCommands \cup BuildCommands \cup RejectedCommands
          \cup SessionCommands |->
        ShlexSplit(c)]

Shlex(command) == ShlexTable[command]

TokenLists == {ShlexTable[c].tokens : c \in DOMAIN ShlexTable}

AllTokens == UNION {{t[i] : i \in 1..Len(t)} : t \in TokenLists}

LowerTable == [t \in AllTokens |-> Lower(t)]

lower(s) == LowerTable[s]

(***************************************************************************)
(* Graph model: Node, Edge, GraphDirection                                 *)
(*                                                                         *)
(* A node object is a record; oid is the identity of the Python object.    *)
(* An edge holds references to its two node objects: the oid and the       *)
(* node_id of the referenced object (node_id is never reassigned).         *)
(* An attribute dict is a function from its keys to their values; the      *)
(* insertion order of the keys is not modelled.                            *)
(***************************************************************************)
DIRECTED == "DIRECTED"
UNDIRECTED == "UNDIRECTED"

EmptyDict == [k \in {} |-> ""]

\* Node.add_attribute / Edge.add_attribute: self.attributes[atr] = value
add_attribute(attributes, atr, value) ==
    [k \in DOMAIN attributes \cup {atr} |-> IF k = atr THEN value ELSE attributes[k]]

\* a variant that removes the name when it is there and raises nothing: self.attributes.pop(atr, None)
remove_attribute_Silent(attributes, atr) ==
    [exc |-> NoExc, msg |-> "", attributes |-> [k \in DOMAIN attributes \ {atr} |-> attributes[k]]]

\* Node.remove_attribute / Edge.remove_attribute: del self.attributes[atr]
remove_attribute(attributes, atr) ==
    IF atr \in DOMAIN attributes
    THEN [exc |-> NoExc, msg |-> "", attributes |-> [k \in DOMAIN attributes \ {atr} |-> attributes[k]]]
    ELSE [exc |-> "KeyError", msg |-> "'" \o atr \o "'", attributes |-> attributes]

\* dict.update restricted to what the loops "for key, value in properties.items()" do
SetAll(attributes, properties) ==
    [k \in DOMAIN attributes \cup DOMAIN properties |->
        IF k \in DOMAIN properties THEN properties[k] ELSE attributes[k]]

RECURSIVE RemoveAll(_, _)
\* for removal in removals: x.remove_attribute(removal); stops at the first KeyError
RemoveAll(attributes, removals) ==
    IF removals = <<>> THEN [exc |-> NoExc, msg |-> "", attributes |-> attributes]
    ELSE LET r == remove_attribute(attributes, Head(removals))
         IN  IF r.exc # NoExc THEN r ELSE RemoveAll(r.attributes, Tail(removals))

\* Node(name, node_id)
Node(oid, name, node_id) ==
    [oid |-> oid, node_id |-> node_id, name |-> name, attributes |-> EmptyDict]

NodeRef(node) == [oid |-> node.oid, node_id |-> node.node_id]

Edge_Swapped(source, dest, direction) ==
    [source |-> NodeRef(dest), destination |-> NodeRef(source),
     direction |-> direction, attributes |-> EmptyDict]

\* Edge(source, dest, direction)
Edge(source, dest, direction) ==
    [source |-> NodeRef(source), destination |-> NodeRef(dest),
     direction |-> direction, attributes |-> EmptyDict]

\* Node.__eq__: by node_id only
NodeEq(a, b) == a.node_id = b.node_id

\* identity of a newly allocated node object: the least one not held by the graph
UsedOids(ns, es) ==
    {ns[i].oid : i \in 1..Len(ns)} \cup {es[i].source.oid : i \in 1..Len(es)}
        \cup {es[i].destination.oid : i \in 1..Len(es)}
FreshOid(ns, es) == CHOOSE o \in 1..(Cardinality(UsedOids(ns, es)) + 1) :
                        /\ o \notin UsedOids(ns, es)
                        /\ \A p \in 1..(o - 1) : p \in UsedOids(ns, es)

\* list.remove at a known position
RemoveAt(seq, i) == SubSeq(seq, 1, i - 1) \o SubSeq(seq, i + 1, Len(seq))

(***************************************************************************)
(* workspace.py: SearchCondition, FilterCondition                          *)
(***************************************************************************)
SearchCondition(query) == [query |-> Lower(query), type |-> "search"]

FilterCondition(attribute, operator, value) ==
    [attribute |-> attribute, operator |-> operator, value |-> value, type |-> "filter"]

(***************************************************************************)
(* workspace.py: the values held by attribute maps                         *)
(*                                                                         *)
(* A loaded graph holds str, int, float and bool attribute values (the     *)
(* JSON loader stores scalars as parsed).  A number is num / den with den  *)
(* a power of ten.  The literals of the filters use letters, digits, a     *)
(* sign and a point: no exponent, underscore, inf or nan.                  *)
(***************************************************************************)
\* a number or a boolean (num / den, True as 1), and a string
Py(t, num, den) == [t |-> t, num |-> num, den |-> den, s |-> ""]
PyStr(s) == [t |-> "str", num |-> 0, den |-> 1, s |-> s]

IsDigits(s) == s # "" /\ \A i \in 1..Len(s) : Contains(Digits, CharAt(s, i))

RECURSIVE StrToNat(_)
StrToNat(s) ==
    IF s = "" THEN 0
    ELSE 10 * StrToNat(SubSeq(s, 1, Len(s) - 1)) + (IndexOf(Digits, CharAt(s, Len(s)), 1) - 1)

\* str(attr_value): 30 -> "30", 28.5 -> "28.5", True -> "True"
str(v) ==
    LET RECURSIVE NatToStr(_)
        NatToStr(n) ==
            IF n < 10 THEN CharAt(Digits, n + 1) ELSE NatToStr(n \div 10) \o CharAt(Digits, (n % 10) + 1)
        RECURSIVE FractionDigits(_)
        FractionDigits(num) ==
            CharAt(Digits, ((10 * num) \div v.den) + 1)
                \o (IF (10 * num) % v.den = 0 THEN "" ELSE FractionDigits((10 * num) % v.den))
        a == IF v.num < 0 THEN 0 - v.num ELSE v.num
        sign == IF v.num < 0 THEN "-" ELSE ""
    IN  IF v.t = "str" THEN v.s
        ELSE IF v.t = "bool" THEN (IF v.num = 1 THEN "True" ELSE "False")
        ELSE IF v.t = "int" THEN sign \o NatToStr(a)
        ELSE sign \o NatToStr(a \div v.den) \o "." \o FractionDigits(a % v.den)

\* the result of a cast: the value, or the ValueError raised
Cast(exc, v) == [exc |-> exc, value |-> v]

\* int(value): optional sign and decimal digits, surrounding white space ignored
int(literal) ==
    LET s == Strip(literal)
        u == IF StartsWith(s, "-") \/ StartsWith(s, "+") THEN SubSeq(s, 2, Len(s)) ELSE s
    IN  IF IsDigits(u)
        THEN Cast(NoExc, Py("int", (IF StartsWith(s, "-") THEN 0 - 1 ELSE 1) * StrToNat(u), 1))
        ELSE Cast("ValueError", PyStr(""))

\* float(value): optional sign, digits with at most one point and at least one digit
float(literal) ==
    LET s == Strip(literal)
        u == IF StartsWith(s, "-") \/ StartsWith(s, "+") THEN SubSeq(s, 2, Len(s)) ELSE s
        p == IndexOf(u, ".", 1)
        whole == IF p = 0 THEN u ELSE SubSeq(u, 1, p - 1)
        frac == IF p = 0 THEN "" ELSE SubSeq(u, p + 1, Len(u))
    IN  IF /\ whole \o frac # ""
           /\ (whole = "" \/ IsDigits(whole))
           /\ (frac = "" \/ IsDigits(frac))
        THEN Cast(NoExc, Py("float", (IF StartsWith(s, "-") THEN 0 - 1 ELSE 1) * StrToNat(whole \o frac),
                            10 ^ Len(frac)))
        ELSE Cast("ValueError", PyStr(""))

\* a cast to bool that compares the literal as written
CastTo_CaseSensitive(t, literal) ==
    IF t = "bool" THEN Cast(NoExc, Py("bool", IF literal \in {"true", "1", "yes"} THEN 1 ELSE 0, 1))
    ELSE IF t = "int" THEN int(literal)
    ELSE IF t = "float" THEN float(literal)
    ELSE Cast(NoExc, PyStr(literal))

\* the cast of the filter value to the type of the attribute value (lines 108-121)
CastTo(t, literal) ==
    IF t = "bool" THEN Cast(NoExc, Py("bool", IF Lower(literal) \in {"true", "1", "yes"} THEN 1 ELSE 0, 1))
    ELSE IF t = "int" THEN int(literal)
    ELSE IF t = "float" THEN float(literal)
    ELSE Cast(NoExc, PyStr(literal))

\* a == b and a < b on two values of one type
PyEq(a, b) == IF a.t = "str" THEN a.s = b.s ELSE a.num * b.den = b.num * a.den
PyLess(a, b) == a.num * b.den < b.num * a.den

\* isinstance(attribute_value, (int, float, datetime)); bool is a subclass of int
IsOrdered(v) == v.t \in {"int", "float", "bool"}

NoneStr == ""

(***************************************************************************)
(* workspace.py: Workspace                                                 *)
(***************************************************************************)
\* query in text
IsSubstring(query, text) == \E i \in 1..(Len(text) + 1) : StartsWithAt(text, i, query)

\* a search that looks at the name only
_node_matches_search_NameOnly(node, query) == IsSubstring(query, Lower(node.name))

\* Workspace._node_matches_search
_node_matches_search(node, query) ==
    \/ IsSubstring(query, Lower(node.name))
    \/ IsSubstring(query, Lower(node.node_id))
    \/ \E attr_name \in DOMAIN node.attributes :
          \/ IsSubstring(query, Lower(attr_name))
          \/ IsSubstring(query, Lower(str(node.attributes[attr_name])))

Matched(match, error) == [match |-> match, error |-> error]

\* the operator chain of _node_matches_filter (lines 124-140)
ApplyOperator(attribute_value, filter_cond, cast_value) ==
    IF filter_cond.operator = "==" THEN Matched(PyEq(attribute_value, cast_value), NoneStr)
    ELSE IF filter_cond.operator = "!=" THEN Matched(~PyEq(attribute_value, cast_value), NoneStr)
    ELSE IF filter_cond.operator = ">" /\ IsOrdered(attribute_value)
    THEN Matched(PyLess(cast_value, attribute_value), NoneStr)
    ELSE IF filter_cond.operator = "<" /\ IsOrdered(attribute_value)
    THEN Matched(PyLess(attribute_value, cast_value), NoneStr)
    ELSE IF filter_cond.operator = ">=" /\ IsOrdered(attribute_value)
    THEN Matched(~PyLess(attribute_value, cast_value), NoneStr)
    ELSE IF filter_cond.operator = "<=" /\ IsOrdered(attribute_value)
    THEN Matched(~PyLess(cast_value, attribute_value), NoneStr)
    ELSE Matched(FALSE, "Operator '" \o filter_cond.operator \o "' not supported for type "
                            \o attribute_value.t \o ".")

\* _node_matches_filter on an attribute that the node has
MatchValue(attribute_value, filter_cond, cast) ==
    IF cast.exc # NoExc
    THEN Matched(FALSE, "Invalid filter value '" \o filter_cond.value \o "' for attribute '"
                            \o filter_cond.attribute \o "' (expected " \o attribute_value.t \o ").")
    ELSE ApplyOperator(attribute_value, filter_cond, cast.value)

\* an absent attribute reported as an error
_node_matches_filter_AbsentIsError(node, filter_cond) ==
    IF filter_cond.attribute \notin DOMAIN node.attributes
    THEN Matched(FALSE, "Attribute '" \o filter_cond.attribute \o "' not found.")
    ELSE MatchValue(node.attributes[filter_cond.attribute], filter_cond,
                    CastTo(node.attributes[filter_cond.attribute].t, filter_cond.value))

\* Workspace._node_matches_filter: (match, error_message), NoneStr for no message
_node_matches_filter(node, filter_cond) ==
    IF filter_cond.attribute \notin DOMAIN node.attributes THEN Matched(FALSE, NoneStr)
    ELSE MatchValue(node.attributes[filter_cond.attribute], filter_cond,
                    CastTo(node.attributes[filter_cond.attribute].t, filter_cond.value))

\* a node as a loader leaves it: Node(name, node_id) and add_attribute calls
LoadedNode(oid, node_id, name, attributes) ==
    [Node(oid, name, node_id) EXCEPT !.attributes = attributes]

Loaded ==
    [Alice |-> LoadedNode(1, "1", "Alice", [x \in {"age", "flag"} |->
                    IF x = "age" THEN Py("int", 30, 1) ELSE Py("bool", 1, 1)]),
     Bob   |-> LoadedNode(2, "2", "Bob", [x \in {"age", "flag"} |->
                    IF x = "age" THEN Py("int", 25, 1) ELSE Py("bool", 0, 1)]),
     Carol |-> LoadedNode(3, "3", "Carol", [x \in {"age"} |-> PyStr("Old")]),
     Dan   |-> LoadedNode(4, "4", "Dan", [x \in {"age", "Born"} |->
                    IF x = "age" THEN Py("float", 285, 10) ELSE PyStr("Oslo")]),
     Eve   |-> LoadedNode(5, "k30", "Eve", [x \in {"age"} |-> Py("bool", 1, 1)]),
     Bo    |-> LoadedNode(6, "6", "Bo", EmptyDict)]

NodePool == {Loaded[name] : name \in DOMAIN Loaded}

\* the graphs a workspace is created on: [nodes, edges]
GraphOf(ns, pairs) ==
    [nodes |-> ns,
     edges |-> [i \in 1..Len(pairs) |-> Edge(ns[pairs[i][1]], ns[pairs[i][2]], DIRECTED)]]

Graphs ==
    { GraphOf(<<>>, <<>>),
      GraphOf(<<Loaded.Alice, Loaded.Bob, Loaded.Carol, Loaded.Dan>>, <<<<1, 2>>, <<2, 3>>, <<4, 1>>, <<1, 1>>, <<1, 4>>>>),
      GraphOf(<<Loaded.Eve, Loaded.Bob, Loaded.Alice>>, <<<<3, 2>>, <<2, 1>>, <<3, 1>>, <<2, 3>>>>),
      GraphOf(<<Loaded.Bo, Loaded.Carol, Loaded.Eve, Loaded.Dan>>, <<<<1, 2>>, <<3, 4>>, <<4, 3>>, <<2, 2>>>>) }

\* the queries given to add_search and the conditions given to add_filter
Queries == {"o", "30", "BO", "true"}

FilterPool ==
    { FilterCondition("age", ">", "28"),
      FilterCondition("age", "==", "30"),
      FilterCondition("age", "<=", "old"),
      FilterCondition("age", "=", "30"),
      FilterCondition("flag", "==", "maybe"),
      FilterCondition("flag", "!=", "YES"),
      FilterCondition("flag", ">=", "1"),
      FilterCondition("height", ">", "28") }

\* the two matching functions, tabulated over the nodes and conditions in use
SearchTable == [node \in NodePool, query \in {Lower(q) : q \in Queries} |-> _node_matches_search(node, query)]

FilterTable == [node \in NodePool, filter_cond \in FilterPool |-> _node_matches_filter(node, filter_cond)]

\* the two matching functions as the passes call them: read from the table where it holds
\* the pair, computed otherwise
SearchMatch(node, query) ==
    IF <<node, query>> \in DOMAIN SearchTable THEN SearchTable[node, query]
    ELSE _node_matches_search(node, query)

FilterMatch(node, filter_cond) ==
    IF <<node, filter_cond>> \in DOMAIN FilterTable THEN FilterTable[node, filter_cond]
    ELSE _node_matches_filter(node, filter_cond)

RECURSIVE SearchPasses(_, _)
\* the loop over self.searches (lines 58-62)
SearchPasses(filtered_nodes, ss) ==
    IF ss = <<>> THEN filtered_nodes
    ELSE SearchPasses(SelectSeq(filtered_nodes, LAMBDA node : SearchMatch(node, Head(ss).query)), Tail(ss))

\* a pass that stops collecting after its first message
PassErrors_FirstOnly(filtered_nodes, filter_cond) ==
    IF \A i \in 1..Len(filtered_nodes) : FilterMatch(filtered_nodes[i], filter_cond).error = NoneStr
    THEN <<>>
    ELSE << FilterMatch(filtered_nodes[CHOOSE i \in 1..Len(filtered_nodes) :
                           /\ FilterMatch(filtered_nodes[i], filter_cond).error # NoneStr
                           /\ \A j \in 1..(i - 1) :
                                 FilterMatch(filtered_nodes[j], filter_cond).error = NoneStr],
                        filter_cond).error >>

\* the messages appended during one pass of the loop over self.filters, in node order
PassErrors(filtered_nodes, filter_cond) ==
    SelectSeq([i \in 1..Len(filtered_nodes) |-> FilterMatch(filtered_nodes[i], filter_cond).error],
              LAMBDA error : error # NoneStr)

RECURSIVE FilterPasses_StopsAtError(_, _, _)
\* a loop over self.filters that ends after the first pass that reports an error
FilterPasses_StopsAtError(filtered_nodes, fs, errors) ==
    IF fs = <<>> THEN [nodes |-> filtered_nodes, errors |-> errors]
    ELSE IF PassErrors(filtered_nodes, Head(fs)) # <<>>
    THEN [nodes |-> SelectSeq(filtered_nodes, LAMBDA node : FilterMatch(node, Head(fs)).match),
          errors |-> errors \o PassErrors(filtered_nodes, Head(fs))]
    ELSE FilterPasses_StopsAtError(SelectSeq(filtered_nodes, LAMBDA node : FilterMatch(node, Head(fs)).match),
                                   Tail(fs), errors)

RECURSIVE FilterPasses(_, _, _)
\* the loop over self.filters (lines 64-72)
FilterPasses(filtered_nodes, fs, errors) ==
    IF fs = <<>> THEN [nodes |-> filtered_nodes, errors |-> errors]
    ELSE FilterPasses(SelectSeq(filtered_nodes, LAMBDA node : FilterMatch(node, Head(fs)).match),
                      Tail(fs), errors \o PassErrors(filtered_nodes, Head(fs)))

\* an edge kept on its source alone
InducedEdges_SourceOnly(es, filtered_nodes) ==
    SelectSeq(es, LAMBDA edge :
        edge.source.node_id \in {filtered_nodes[i].node_id : i \in 1..Len(filtered_nodes)})

\* filtered_edges (lines 74-78)
InducedEdges(es, filtered_nodes) ==
    SelectSeq(es, LAMBDA edge :
        /\ edge.source.node_id \in {filtered_nodes[i].node_id : i \in 1..Len(filtered_nodes)}
        /\ edge.destination.node_id \in {filtered_nodes[i].node_id : i \in 1..Len(filtered_nodes)})

\* a Graph object: the one the workspace was created on, or one built by apply_filters
GraphObject == [id |-> "graph", nodes |-> <<>>, edges |-> <<>>]
Graph(ns, es) == [id |-> "filtered", nodes |-> ns, edges |-> es]

\* apply_filters without the early return of lines 52-54
apply_filters_AlwaysBuilds(ns, es, ss, fs) ==
    LET passed == FilterPasses(SearchPasses(ns, ss), fs, <<>>)
    IN  [graph |-> Graph(passed.nodes, InducedEdges(es, passed.nodes)), errors |-> passed.errors]

\* Workspace.apply_filters: (filtered_graph, errors)
apply_filters(ns, es, ss, fs) ==
    IF ss = <<>> /\ fs = <<>> THEN [graph |-> GraphObject, errors |-> <<>>]
    ELSE LET passed == FilterPasses(SearchPasses(ns, ss), fs, <<>>)
         IN  [graph |-> Graph(passed.nodes, InducedEdges(es, passed.nodes)), errors |-> passed.errors]

(***************************************************************************)
(* cli_service.py: CommandParser                                           *)
(*                                                                         *)
(* A handler is a function of the token list and the graph (ns, es) to     *)
(* the outcome: the exception raised (NoExc when it returns), the graph    *)
(* as the handler left it, and the CommandResult.                          *)
(***************************************************************************)
Raise(exc, msg, ns, es) ==
    [exc |-> exc, msg |-> msg, nodes |-> ns, edges |-> es, command_type |-> "", data |-> None]

\* CommandResult(command_type, data)
CommandResult(command_type, data, ns, es) ==
    [exc |-> NoExc, msg |-> "", nodes |-> ns, edges |-> es, command_type |-> command_type, data |-> data]

\* a variant that takes a token without "=" as a key with an empty value
_parse_key_value_Lenient(kv_string) ==
    IF ~Contains(kv_string, "=")
    THEN [exc |-> NoExc, msg |-> "", key |-> Strip(kv_string), value |-> ""]
    ELSE [exc |-> NoExc, msg |-> "",
          key |-> Strip(SubSeq(kv_string, 1, IndexOf(kv_string, "=", 1) - 1)),
          value |-> Strip(SubSeq(kv_string, IndexOf(kv_string, "=", 1) + 1, Len(kv_string)))]

\* CommandParser._parse_key_value
_parse_key_value(kv_string) ==
    IF ~Contains(kv_string, "=")
    THEN [exc |-> "ValueError", msg |-> "Invalid key=value format: " \o kv_string, key |-> "", value |-> ""]
    ELSE LET p == IndexOf(kv_string, "=", 1)
         IN  [exc |-> NoExc, msg |-> "",
              key |-> Strip(SubSeq(kv_string, 1, p - 1)),
              value |-> Strip(SubSeq(kv_string, p + 1, Len(kv_string)))]

\* the result dict; has_id: the key 'id' is present; direction "None": the key 'direction' is absent
ArgsResult == [exc |-> NoExc, msg |-> "", has_id |-> FALSE, id |-> "", properties |-> EmptyDict,
               removals |-> <<>>, positional |-> <<>>, undirected |-> FALSE, direction |-> "None"]

ArgsError(result, msg) == [result EXCEPT !.exc = "ValueError", !.msg = msg]

RECURSIVE ArgsLoop(_, _, _)
\* the while loop of CommandParser._parse_arguments
ArgsLoop(args, i, result) ==
    IF i > Len(args) THEN result
    ELSE LET arg == args[i] IN
         IF StartsWith(arg, "--id=")
         THEN ArgsLoop(args, i + 1, [result EXCEPT !.has_id = TRUE, !.id = SubSeq(arg, 6, Len(arg))])
         ELSE IF arg = "--property"
         THEN IF i + 1 > Len(args) THEN ArgsError(result, "Expected property after --property")
              ELSE LET kv == _parse_key_value(args[i + 1])
                   IN  IF kv.exc # NoExc THEN ArgsError(result, kv.msg)
                       ELSE ArgsLoop(args, i + 2,
                                [result EXCEPT !.properties = add_attribute(@, kv.key, kv.value)])
         ELSE IF arg = "--unset-property"
         THEN IF i + 1 > Len(args) THEN ArgsError(result, "Expected property name after --unset-property")
              ELSE ArgsLoop(args, i + 2, [result EXCEPT !.removals = Append(@, args[i + 1])])
         ELSE IF arg = "--undirected"
         THEN ArgsLoop(args, i + 1, [result EXCEPT !.undirected = TRUE])
         ELSE IF arg = "--directed"
         THEN ArgsLoop(args, i + 1, [result EXCEPT !.direction = DIRECTED])
         ELSE ArgsLoop(args, i + 1, [result EXCEPT !.positional = Append(@, arg)])

ArgsTable == [args \in {Drop(t, 2) : t \in TokenLists} |-> ArgsLoop(args, 1, ArgsResult)]

\* the check of the required fields that ends _parse_arguments
RequireFields(result, required_fields) ==
    IF result.exc # NoExc THEN result
    ELSE IF "id" \in required_fields /\ ~result.has_id
    THEN ArgsError(result, "Required field 'id' is missing")
    ELSE result

\* CommandParser._parse_arguments; required_fields is [] or ['id']
_parse_arguments(args, required_fields) == RequireFields(ArgsTable[args], required_fields)

\* CommandParser._find_node: position of the first node with that id, 0 when it raises
_find_node(ns, node_id) ==
    IF \E i \in 1..Len(ns) : ns[i].node_id = node_id
    THEN CHOOSE i \in 1..Len(ns) :
            ns[i].node_id = node_id /\ \A j \in 1..(i - 1) : ns[j].node_id # node_id
    ELSE 0

NodeNotFound(node_id) == "Node '" \o node_id \o "' not found"

\* CommandParser._find_edge: position of the first edge on that ordered pair, 0 when it raises
EdgeMatches(edge, src_id, dst_id) ==
    edge.source.node_id = src_id /\ edge.destination.node_id = dst_id

_find_edge(es, src_id, dst_id) ==
    IF \E i \in 1..Len(es) : EdgeMatches(es[i], src_id, dst_id)
    THEN CHOOSE i \in 1..Len(es) :
            EdgeMatches(es[i], src_id, dst_id) /\ \A j \in 1..(i - 1) : ~EdgeMatches(es[j], src_id, dst_id)
    ELSE 0

EdgeNotFound(src_id, dst_id) == "Edge from '" \o src_id \o "' to '" \o dst_id \o "' not found"

_edge_exists_Never(es, src_id, dst_id) == FALSE

\* CommandParser._edge_exists
_edge_exists(es, src_id, dst_id) == _find_edge(es, src_id, dst_id) # 0

\* properties.get('name') or properties.get('Name') or f"Node_{node_id}"
DefaultName(properties, node_id) ==
    IF "name" \in DOMAIN properties /\ properties["name"] # "" THEN properties["name"]
    ELSE IF "Name" \in DOMAIN properties /\ properties["Name"] # "" THEN properties["Name"]
    ELSE "Node_" \o node_id

\* any(node.node_id == node_id for node in self.graph.nodes)
NodeIdExists_Never(ns, node_id) == FALSE

NodeIdExists(ns, node_id) == \E i \in 1..Len(ns) : ns[i].node_id = node_id

\* _create_node_from_args after _parse_arguments, and the append of _parse_create
CreateNode(params, ns, es) ==
    IF params.exc # NoExc THEN Raise(params.exc, params.msg, ns, es)
    ELSE IF NodeIdExists(ns, params.id)
    THEN Raise("ValueError", "Node with ID '" \o params.id \o "' already exists", ns, es)
    ELSE LET node == [Node(FreshOid(ns, es), DefaultName(params.properties, params.id), params.id)
                        EXCEPT !.attributes = SetAll(@, params.properties)]
         IN  CommandResult("CREATE_NODE", None, Append(ns, node), es)

\* CommandParser._create_node_from_args
_create_node_from_args(args, ns, es) == CreateNode(_parse_arguments(args, {"id"}), ns, es)

\* _create_edge_from_args after _parse_arguments, and the append of _parse_create
CreateEdge(params, ns, es) ==
    IF params.exc # NoExc THEN Raise(params.exc, params.msg, ns, es)
    ELSE IF Len(params.positional) # 2
    THEN Raise("ValueError", "Edge must specify exactly 2 node IDs", ns, es)
    ELSE LET src_id == params.positional[1]
             dst_id == params.positional[2]
             is_directed == ~params.undirected
         IN  IF _find_node(ns, src_id) = 0 THEN Raise("ValueError", NodeNotFound(src_id), ns, es)
             ELSE IF _find_node(ns, dst_id) = 0 THEN Raise("ValueError", NodeNotFound(dst_id), ns, es)
             ELSE IF _edge_exists(es, src_id, dst_id)
             THEN Raise("ValueError", "Edge already exists between these nodes", ns, es)
             ELSE LET direction == IF is_directed THEN DIRECTED ELSE UNDIRECTED
                      edge == [Edge(ns[_find_node(ns, src_id)], ns[_find_node(ns, dst_id)], direction)
                                  EXCEPT !.attributes = SetAll(@, params.properties)]
                  IN  CommandResult("CREATE_EDGE", None, ns, Append(es, edge))

\* CommandParser._create_edge_from_args
_create_edge_from_args(args, ns, es) == CreateEdge(_parse_arguments(args, {}), ns, es)

\* the removal loop run before the property loop
EditNode_UnsetFirst(params, ns, es) ==
    IF params.exc # NoExc THEN Raise(params.exc, params.msg, ns, es)
    ELSE IF _find_node(ns, params.id) = 0 THEN Raise("ValueError", NodeNotFound(params.id), ns, es)
    ELSE LET i == _find_node(ns, params.id)
             rem == RemoveAll(ns[i].attributes, params.removals)
             set == SetAll(rem.attributes, params.properties)
             ns2 == [ns EXCEPT ![i].attributes = set]
         IN  IF rem.exc # NoExc THEN Raise(rem.exc, rem.msg, ns, es)
             ELSE CommandResult("EDIT_NODE", None, ns2, es)

\* _edit_node_from_args after _parse_arguments
EditNode(params, ns, es) ==
    IF params.exc # NoExc THEN Raise(params.exc, params.msg, ns, es)
    ELSE IF _find_node(ns, params.id) = 0 THEN Raise("ValueError", NodeNotFound(params.id), ns, es)
    ELSE LET i == _find_node(ns, params.id)
             set == SetAll(ns[i].attributes, params.properties)
             rem == RemoveAll(set, params.removals)
             ns2 == [ns EXCEPT ![i].attributes = rem.attributes]
         IN  IF rem.exc # NoExc THEN Raise(rem.exc, rem.msg, ns2, es)
             ELSE CommandResult("EDIT_NODE", None, ns2, es)

\* CommandParser._edit_node_from_args
_edit_node_from_args(args, ns, es) == EditNode(_parse_arguments(args, {"id"}), ns, es)

\* _edit_edge_from_args after _parse_arguments
EditEdge(params, ns, es) ==
    IF params.exc # NoExc THEN Raise(params.exc, params.msg, ns, es)
    ELSE IF Len(params.positional) # 2
    THEN Raise("ValueError", "Edge must specify exactly 2 node IDs", ns, es)
    ELSE LET src_id == params.positional[1]
             dst_id == params.positional[2]
             i == _find_edge(es, src_id, dst_id)
         IN  IF i = 0 THEN Raise("ValueError", EdgeNotFound(src_id, dst_id), ns, es)
             ELSE LET set == SetAll(es[i].attributes, params.properties)
                      rem == RemoveAll(set, params.removals)
                      es2 == [es EXCEPT ![i].attributes = rem.attributes]
                  IN  IF rem.exc # NoExc THEN Raise(rem.exc, rem.msg, ns, es2)
                      ELSE IF params.direction # "None"
                      THEN CommandResult("EDIT_EDGE", None, ns, [es2 EXCEPT ![i].direction = params.direction])
                      ELSE CommandResult("EDIT_EDGE", None, ns, es2)

\* CommandParser._edit_edge_from_args
_edit_edge_from_args(args, ns, es) == EditEdge(_parse_arguments(args, {}), ns, es)

HasConnectedEdges_SourceOnly(es, node) == \E j \in 1..Len(es) : NodeEq(es[j].source, node)

\* any(edge.source == node or edge.destination == node for edge in self.graph.edges)
HasConnectedEdges(es, node) ==
    \E j \in 1..Len(es) : NodeEq(es[j].source, node) \/ NodeEq(es[j].destination, node)

\* _delete_node_from_args after _parse_arguments
DeleteNode(params, ns, es) ==
    IF params.exc # NoExc THEN Raise(params.exc, params.msg, ns, es)
    ELSE IF _find_node(ns, params.id) = 0 THEN Raise("ValueError", NodeNotFound(params.id), ns, es)
    ELSE LET i == _find_node(ns, params.id)
         IN  IF HasConnectedEdges(es, ns[i])
             THEN Raise("ValueError", "Cannot delete node with connected edges", ns, es)
             ELSE CommandResult("DELETE_NODE", None, RemoveAt(ns, i), es)

\* CommandParser._delete_node_from_args
_delete_node_from_args(args, ns, es) == DeleteNode(_parse_arguments(args, {"id"}), ns, es)

\* CommandParser._delete_edge_from_args
_delete_edge_from_args(args, ns, es) ==
    IF Len(args) # 2 THEN Raise("ValueError", "Edge delete requires exactly 2 node IDs", ns, es)
    ELSE LET i == _find_edge(es, args[1], args[2])
         IN  IF i = 0 THEN Raise("ValueError", EdgeNotFound(args[1], args[2]), ns, es)
             ELSE CommandResult("DELETE_EDGE", None, ns, RemoveAt(es, i))

CreateTarget(target, args, ns, es) ==
    IF target = "node" THEN _create_node_from_args(args, ns, es)
    ELSE IF target = "edge" THEN _create_edge_from_args(args, ns, es)
    ELSE Raise("ValueError", "Unknown create target: " \o target, ns, es)

\* CommandParser._parse_create
_parse_create(tokens, ns, es) ==
    IF Len(tokens) < 2 THEN Raise("ValueError", "Create command requires target (node/edge)", ns, es)
    ELSE CreateTarget(lower(tokens[2]), Drop(tokens, 2), ns, es)

EditTarget(target, args, ns, es) ==
    IF target = "node" THEN _edit_node_from_args(args, ns, es)
    ELSE IF target = "edge" THEN _edit_edge_from_args(args, ns, es)
    ELSE Raise("ValueError", "Unknown edit target: " \o target, ns, es)

\* CommandParser._parse_edit
_parse_edit(tokens, ns, es) ==
    IF Len(tokens) < 2 THEN Raise("ValueError", "Edit command requires target (node/edge)", ns, es)
    ELSE EditTarget(lower(tokens[2]), Drop(tokens, 2), ns, es)

DeleteTarget(target, args, ns, es) ==
    IF target = "node" THEN _delete_node_from_args(args, ns, es)
    ELSE IF target = "edge" THEN _delete_edge_from_args(args, ns, es)
    ELSE Raise("ValueError", "Unknown delete target: " \o target, ns, es)

\* CommandParser._parse_delete
_parse_delete(tokens, ns, es) ==
    IF Len(tokens) < 2 THEN Raise("ValueError", "Delete command requires target (node/edge)", ns, es)
    ELSE DeleteTarget(lower(tokens[2]), Drop(tokens, 2), ns, es)

_parse_clear_NodesOnly(tokens, ns, es) ==
    IF Len(tokens) < 2 \/ lower(tokens[2]) # "graph"
    THEN Raise("ValueError", "Clear command requires 'graph' target", ns, es)
    ELSE CommandResult("CLEAR_GRAPH", None, <<>>, es)

\* CommandParser._parse_clear
_parse_clear(tokens, ns, es) ==
    IF Len(tokens) < 2 \/ lower(tokens[2]) # "graph"
    THEN Raise("ValueError", "Clear command requires 'graph' target", ns, es)
    ELSE CommandResult("CLEAR_GRAPH", None, <<>>, <<>>)

\* the quote stripping of _parse_filter_expression: value[1:-1]
StripQuotes(value) ==
    IF (StartsWith(value, DQ) /\ EndsWith(value, DQ)) \/ (StartsWith(value, SQ) /\ EndsWith(value, SQ))
    THEN SubSeq(value, 2, Len(value) - 1)
    ELSE value

\* one match of the pattern to one condition: FilterCondition(attr, value, op)
MatchToCondition(match) ==
    LET attr == match[1]
        op == IF match[2] = "=" THEN "==" ELSE match[2]
        value == StripQuotes(match[3])
    IN  FilterCondition(attr, value, op)

FindAllTable == [expr \in {Join(" ", Tail(t)) : t \in {u \in TokenLists : u # <<>>}} |-> FindAll(expr, 1, <<>>)]

\* the body of _parse_filter_expression after re.findall
FiltersOf(expr, matches) ==
    IF matches = <<>>
    THEN [exc |-> "ValueError", msg |-> "Invalid filter expression: " \o expr, filters |-> <<>>]
    ELSE [exc |-> NoExc, msg |-> "",
          filters |-> [i \in 1..Len(matches) |-> MatchToCondition(matches[i])]]

\* CommandParser._parse_filter_expression
_parse_filter_expression(expr) == FiltersOf(expr, FindAllTable[expr])

FilterResult(r, ns, es) ==
    IF r.exc # NoExc THEN Raise(r.exc, r.msg, ns, es) ELSE CommandResult("FILTER", r.filters, ns, es)

\* CommandParser._parse_filter
_parse_filter(tokens, ns, es) ==
    IF Len(tokens) < 2 THEN Raise("ValueError", "Filter command requires conditions", ns, es)
    ELSE FilterResult(_parse_filter_expression(Join(" ", Tail(tokens))), ns, es)

\* CommandParser._parse_search
_parse_search(tokens, ns, es) ==
    IF Len(tokens) < 2 THEN Raise("ValueError", "Search command requires search term", ns, es)
    ELSE CommandResult("SEARCH", SearchCondition(Join(" ", Tail(tokens))), ns, es)

\* the dispatch on self._handlers
Dispatch(primary_command, tokens, ns, es) ==
    IF primary_command = "create" THEN _parse_create(tokens, ns, es)
    ELSE IF primary_command = "edit" THEN _parse_edit(tokens, ns, es)
    ELSE IF primary_command = "delete" THEN _parse_delete(tokens, ns, es)
    ELSE IF primary_command = "clear" THEN _parse_clear(tokens, ns, es)
    ELSE IF primary_command = "filter" THEN _parse_filter(tokens, ns, es)
    ELSE IF primary_command = "search" THEN _parse_search(tokens, ns, es)
    ELSE Raise("ValueError", "Unknown command: " \o primary_command, ns, es)

ParseTokens(sh, ns, es) ==
    IF sh.exc # NoExc THEN Raise(sh.exc, sh.msg, ns, es)
    ELSE Dispatch(lower(sh.tokens[1]), sh.tokens, ns, es)

\* CommandParser.parse (CommandService.parse_command builds the parser on the graph and calls it)
parse(command, ns, es) ==
    IF command = "" \/ IsSpace(command) THEN Raise("ValueError", "Empty command", ns, es)
    ELSE ParseTokens(Shlex(command), ns, es)

(***************************************************************************)
(* plugins/datasources: the build context and the cross-reference resolver *)
(* shared by the CSV, JSON and XML loaders                                  *)
(*                                                                         *)
(* A node built by a loader carries, beside its attribute dict, the order  *)
(* in which its keys were inserted: the resolver visits the items in that  *)
(* order.  The identity of a node object is the number drawn for it.       *)
(***************************************************************************)
\* str(n) of a counter value
IdOf(n) == str(Py("int", n, 1))

\* node.add_attribute(atr, value) on a node under construction
Node_add_attribute(node, atr, value) ==
    [node EXCEPT !.attributes = add_attribute(@, atr, value),
                 !.order = IF atr \in DOMAIN node.attributes THEN @ ELSE Append(@, atr)]

\* a build context that starts its own counter at every load
_BuildContext_OwnCounter(uid) == [uid |-> 0, vertices |-> <<>>, edges |-> <<>>]

\* _BuildContext(uid): the counter is the loader's, the lists are new
_BuildContext(uid) == [uid |-> uid, vertices |-> <<>>, edges |-> <<>>]

\* _BuildContext.new_node: Node(name, str(next(self._uid_iter)))
new_node(ctx, name) ==
    [ctx |-> [ctx EXCEPT !.uid = @ + 1],
     node |-> [oid |-> ctx.uid, node_id |-> IdOf(ctx.uid), name |-> name,
               attributes |-> EmptyDict, order |-> <<>>]]

\* _BuildContext.add_vertex
add_vertex(ctx, node) == [ctx EXCEPT !.vertices = Append(@, node)]

\* a variant that adds the edge from the child to its parent
connect_Reversed(ctx, src, dst) == [ctx EXCEPT !.edges = Append(@, Edge(dst, src, DIRECTED))]

\* _BuildContext.connect
connect(ctx, src, dst) == [ctx EXCEPT !.edges = Append(@, Edge(src, dst, DIRECTED))]

RECURSIVE Split(_, _)
\* str.split(sep) for a separator of one character
Split(s, sep) ==
    IF IndexOf(s, sep, 1) = 0 THEN <<s>>
    ELSE <<SubSeq(s, 1, IndexOf(s, sep, 1) - 1)>> \o Split(SubSeq(s, IndexOf(s, sep, 1) + 1, Len(s)), sep)

\* _find_by_name: the position in ctx.vertices of the node returned, 0 for None.  Every node
\* is tested in turn on its name, then on str(attributes.get("id", "")) and on
\* str(attributes.get("node_id", "")).
_find_by_name(vertices, target_name) ==
    LET t == Lower(Strip(target_name))
        Value(node, attr) == IF attr \in DOMAIN node.attributes THEN str(node.attributes[attr]) ELSE ""
        Found(node) == \/ Lower(node.name) = t
                       \/ \E attr \in {"id", "node_id"} : Lower(Strip(Value(node, attr))) = t
        Hits == {i \in 1..Len(vertices) : Found(vertices[i])}
    IN  IF Hits = {} THEN 0 ELSE CHOOSE i \in Hits : \A j \in Hits : i <= j

Keywords == {"ref", "refs", "parent_ref", "child_ref", "link", "reference"}

\* the names looked up for one attribute value: the CSV loader splits the value on commas,
\* strips the names and skips the empty ones; the JSON and XML loaders look up the whole value
References(attr_val, split) ==
    LET RECURSIVE NonEmpty(_)
        NonEmpty(refs) ==
            IF refs = <<>> THEN <<>>
            ELSE (IF Strip(Head(refs)) = "" THEN <<>> ELSE <<Strip(Head(refs))>>) \o NonEmpty(Tail(refs))
    IN  IF split THEN NonEmpty(Split(attr_val, ",")) ELSE <<attr_val>>

\* the loops of _link_cross_references; split says whether the value is split on commas
LinkReferences(ctx, split) ==
    LET RECURSIVE Names(_, _, _)
        \* for ref in references: target = self._find_by_name(ctx, ref); if target: connect
        Names(c, node, refs) ==
            IF refs = <<>> THEN c
            ELSE Names(IF _find_by_name(c.vertices, Head(refs)) = 0 THEN c
                       ELSE connect(c, node, c.vertices[_find_by_name(c.vertices, Head(refs))]),
                       node, Tail(refs))
        RECURSIVE Items(_, _, _)
        \* for attr_key, attr_val in list(node.attributes.items())
        Items(c, node, keys) ==
            IF keys = <<>> THEN c
            ELSE Items(IF node.attributes[Head(keys)].t = "str" /\ Lower(Strip(Head(keys))) \in Keywords
                       THEN Names(c, node, References(node.attributes[Head(keys)].s, split))
                       ELSE c,
                       node, Tail(keys))
        RECURSIVE Vertices(_, _)
        \* for node in ctx.vertices
        Vertices(c, i) ==
            IF i > Len(c.vertices) THEN c ELSE Vertices(Items(c, c.vertices[i], c.vertices[i].order), i + 1)
    IN  Vertices(ctx, 1)

(***************************************************************************)
(* plugins/datasources/csv: CsvTreeLoader                                  *)
(*                                                                         *)
(* The CSV texts have no carriage return, no doubled quote, no quote       *)
(* inside an unquoted cell and no line break inside a quoted cell.         *)
(***************************************************************************)
\* the result of a load: the Graph returned (or the exception raised) and the counter after it
LoadResult(exc, ns, es, uid) == [exc |-> exc, nodes |-> ns, edges |-> es, uid |-> uid]

\* list(csv.reader(StringIO(text))): a row per line, an empty row for an empty line
csv_reader(text) ==
    LET RECURSIVE Cells(_)
        Cells(line) ==
            IF StartsWith(line, DQ)
            THEN <<SubSeq(line, 2, IndexOf(line, DQ, 2) - 1)>>
                    \o (IF IndexOf(line, DQ, 2) = Len(line) THEN <<>>
                        ELSE Cells(SubSeq(line, IndexOf(line, DQ, 2) + 2, Len(line))))
            ELSE IF IndexOf(line, ",", 1) = 0 THEN <<line>>
            ELSE <<SubSeq(line, 1, IndexOf(line, ",", 1) - 1)>>
                    \o Cells(SubSeq(line, IndexOf(line, ",", 1) + 1, Len(line)))
        lines == Split(text, "\n")
    IN  IF text = "" THEN <<>>
        ELSE [i \in 1..Len(lines) |-> IF lines[i] = "" THEN <<>> ELSE Cells(lines[i])]

\* a variant that uses the first column for the name of the node only
_build_tree_from_csv_rows_NameColumnApart(ctx, parent, data_rows, headers) ==
    LET RECURSIVE Columns(_, _, _)
        \* for col_index, value in enumerate(row)
        Columns(node, row, col_index) ==
            IF col_index > Len(row) THEN node
            ELSE Columns(IF col_index <= Len(headers) /\ row[col_index] # ""
                         THEN Node_add_attribute(node, headers[col_index], PyStr(row[col_index]))
                         ELSE node,
                         row, col_index + 1)
        node_name(row_index) ==
            IF data_rows[row_index][1] # "" THEN data_rows[row_index][1] ELSE "row_" \o IdOf(row_index)
        row_node(made, row_index) ==
            Node_add_attribute(Columns(made.node, data_rows[row_index], 2), "row_index", Py("int", row_index, 1))
        RECURSIVE Rows(_, _)
        \* for row_index, row in enumerate(data_rows, start=1)
        Rows(c, row_index) ==
            IF row_index > Len(data_rows) THEN c
            ELSE IF data_rows[row_index] = <<>> THEN Rows(c, row_index + 1)
            ELSE Rows(add_vertex(new_node(c, node_name(row_index)).ctx,
                                 row_node(new_node(c, node_name(row_index)), row_index)),
                      row_index + 1)
    IN  \* first_node is the node of row 1, the first vertex added after the root
        IF data_rows # <<>> /\ data_rows[1] # <<>>
        THEN connect(Rows(ctx, 1), parent, Rows(ctx, 1).vertices[Len(ctx.vertices) + 1])
        ELSE Rows(ctx, 1)

\* CsvTreeLoader._build_tree_from_csv_rows
_build_tree_from_csv_rows(ctx, parent, data_rows, headers) ==
    LET RECURSIVE Columns(_, _, _)
        \* for col_index, value in enumerate(row)
        Columns(node, row, col_index) ==
            IF col_index > Len(row) THEN node
            ELSE Columns(IF col_index <= Len(headers) /\ row[col_index] # ""
                         THEN Node_add_attribute(node, headers[col_index], PyStr(row[col_index]))
                         ELSE node,
                         row, col_index + 1)
        node_name(row_index) ==
            IF data_rows[row_index][1] # "" THEN data_rows[row_index][1] ELSE "row_" \o IdOf(row_index)
        row_node(made, row_index) ==
            Node_add_attribute(Columns(made.node, data_rows[row_index], 1), "row_index", Py("int", row_index, 1))
        RECURSIVE Rows(_, _)
        \* for row_index, row in enumerate(data_rows, start=1)
        Rows(c, row_index) ==
            IF row_index > Len(data_rows) THEN c
            ELSE IF data_rows[row_index] = <<>> THEN Rows(c, row_index + 1)
            ELSE Rows(add_vertex(new_node(c, node_name(row_index)).ctx,
                                 row_node(new_node(c, node_name(row_index)), row_index)),
                      row_index + 1)
    IN  \* first_node is the node of row 1, the first vertex added after the root
        IF data_rows # <<>> /\ data_rows[1] # <<>>
        THEN connect(Rows(ctx, 1), parent, Rows(ctx, 1).vertices[Len(ctx.vertices) + 1])
        ELSE Rows(ctx, 1)

\* CsvTreeLoader._link_cross_references: the value is split on commas, the names are stripped
\* and the empty ones skipped
Csv_link_cross_references(ctx) == LinkReferences(ctx, TRUE)

\* CsvTreeLoader._link_orphaned_nodes_to_root
_link_orphaned_nodes_to_root(ctx, root) ==
    LET nodes_with_incoming_edges ==
            {ctx.edges[i].destination.node_id : i \in {j \in 1..Len(ctx.edges) :
                                                        ~NodeEq(ctx.edges[j].destination, root)}}
        RECURSIVE Orphans(_, _)
        Orphans(c, i) ==
            IF i > Len(ctx.vertices) THEN c
            ELSE Orphans(IF ctx.vertices[i].name # "ROOT"
                            /\ ctx.vertices[i].node_id \notin nodes_with_incoming_edges
                         THEN connect(c, root, ctx.vertices[i])
                         ELSE c,
                         i + 1)
    IN  Orphans(ctx, 1)

\* CsvTreeLoader.load
CsvTreeLoader_load(csv_string, uid) ==
    LET Return(ctx) == LoadResult(NoExc, ctx.vertices, ctx.edges, ctx.uid)
        headers(rows) == [i \in 1..Len(rows[1]) |-> Strip(rows[1][i])]
        Build(rows, root) ==
            Return(_link_orphaned_nodes_to_root(
                       Csv_link_cross_references(
                           _build_tree_from_csv_rows(add_vertex(root.ctx, root.node), root.node,
                                                     Tail(rows), headers(rows))),
                       root.node))
        Rows(rows) ==
            IF rows = <<>> THEN LoadResult(NoExc, <<>>, <<>>, uid)
            ELSE Build(rows, new_node(_BuildContext(uid), "ROOT"))
    IN  Rows(csv_reader(Strip(csv_string)))

(***************************************************************************)
(* plugins/datasources/json: JsonTreeLoader                                *)
(*                                                                         *)
(* A parsed document is a dict (its items in order), a list, None or a     *)
(* scalar (a str, int, float or bool value as in workspace.py).  The JSON  *)
(* texts have no backslash, no exponent and no number with a leading zero. *)
(***************************************************************************)
JsonDict(items) == [t |-> "dict", items |-> items]
JsonList(items) == [t |-> "list", items |-> items]
JsonNone == [t |-> "None"]

\* json.loads(text): the value, or exc = "JSONDecodeError"
json_loads(text) ==
    LET Fail == [ok |-> FALSE, value |-> JsonNone, next |-> 0]
        Ok(value, next) == [ok |-> TRUE, value |-> value, next |-> next]
        RECURSIVE Skip(_)
        \* the first position at or after i that holds no white space
        Skip(i) == IF i <= Len(text) /\ IsSpaceChar(CharAt(text, i)) THEN Skip(i + 1) ELSE i
        RECURSIVE NumberEnd(_)
        NumberEnd(i) ==
            IF i <= Len(text) /\ Contains(Digits \o "-.", CharAt(text, i)) THEN NumberEnd(i + 1) ELSE i
        Number(literal, next) ==
            IF Contains(literal, ".")
            THEN (IF float(literal).exc = NoExc /\ ~StartsWith(literal, ".") /\ ~EndsWith(literal, ".")
                  THEN Ok(float(literal).value, next) ELSE Fail)
            ELSE (IF int(literal).exc = NoExc THEN Ok(int(literal).value, next) ELSE Fail)
        \* dict[key] = value: a key met again keeps its place and takes the new value
        Put(items, key, value) ==
            IF \E n \in 1..Len(items) : items[n].k = key
            THEN [n \in 1..Len(items) |-> IF items[n].k = key THEN [k |-> key, v |-> value] ELSE items[n]]
            ELSE Append(items, [k |-> key, v |-> value])
        RECURSIVE Value(_), Member(_, _), MemberValue(_, _, _), MemberEnd(_, _),
                  Item(_, _), ItemEnd(_, _)
        Value(i) ==
            IF i > Len(text) THEN Fail
            ELSE IF CharAt(text, i) = "{"
            THEN (IF StartsWithAt(text, Skip(i + 1), "}") THEN Ok(JsonDict(<<>>), Skip(i + 1) + 1)
                  ELSE Member(Skip(i + 1), <<>>))
            ELSE IF CharAt(text, i) = "["
            THEN (IF StartsWithAt(text, Skip(i + 1), "]") THEN Ok(JsonList(<<>>), Skip(i + 1) + 1)
                  ELSE Item(Skip(i + 1), <<>>))
            ELSE IF CharAt(text, i) = DQ
            THEN (IF IndexOf(text, DQ, i + 1) = 0 THEN Fail
                  ELSE Ok(PyStr(SubSeq(text, i + 1, IndexOf(text, DQ, i + 1) - 1)), IndexOf(text, DQ, i + 1) + 1))
            ELSE IF StartsWithAt(text, i, "true") THEN Ok(Py("bool", 1, 1), i + 4)
            ELSE IF StartsWithAt(text, i, "false") THEN Ok(Py("bool", 0, 1), i + 5)
            ELSE IF StartsWithAt(text, i, "null") THEN Ok(JsonNone, i + 4)
            ELSE IF NumberEnd(i) > i THEN Number(SubSeq(text, i, NumberEnd(i) - 1), NumberEnd(i))
            ELSE Fail
        \* "key" : value , ... }
        Member(i, items) ==
            IF ~StartsWithAt(text, i, DQ) \/ IndexOf(text, DQ, i + 1) = 0 THEN Fail
            ELSE IF ~StartsWithAt(text, Skip(IndexOf(text, DQ, i + 1) + 1), ":") THEN Fail
            ELSE MemberValue(SubSeq(text, i + 1, IndexOf(text, DQ, i + 1) - 1),
                             Value(Skip(Skip(IndexOf(text, DQ, i + 1) + 1) + 1)), items)
        MemberValue(key, parsed, items) ==
            IF ~parsed.ok THEN Fail ELSE MemberEnd(Skip(parsed.next), Put(items, key, parsed.value))
        MemberEnd(i, items) ==
            IF StartsWithAt(text, i, "}") THEN Ok(JsonDict(items), i + 1)
            ELSE IF StartsWithAt(text, i, ",") THEN Member(Skip(i + 1), items)
            ELSE Fail
        \* value , ... ]
        Item(i, items) ==
            IF ~Value(i).ok THEN Fail ELSE ItemEnd(Skip(Value(i).next), Append(items, Value(i).value))
        ItemEnd(i, items) ==
            IF StartsWithAt(text, i, "]") THEN Ok(JsonList(items), i + 1)
            ELSE IF StartsWithAt(text, i, ",") THEN Item(Skip(i + 1), items)
            ELSE Fail
        parsed == Value(Skip(1))
    IN  IF parsed.ok /\ Skip(parsed.next) > Len(text)
        THEN [exc |-> NoExc, value |-> parsed.value]
        ELSE [exc |-> "JSONDecodeError", value |-> JsonNone]

RECURSIVE _build_tree(_, _, _, _)
\* JsonTreeLoader._build_tree: the context and the parent node after the call.  label is
\* None (JsonNone) or a str.
_build_tree(ctx, parent, content, label) ==
    LET name(default) == IF label.t = "None" \/ label.s = "" THEN default ELSE label.s
        \* the calls made by the loop of the branch taken:
        \*   for k, v in content.items(): self._build_tree(ctx, child, v, k)
        \*   for item in content: self._build_tree(ctx, parent, item, label or "item")
        inner ==
            [n \in 1..Len(content.items) |->
                IF content.t = "dict"
                THEN [content |-> content.items[n].v, label |-> PyStr(content.items[n].k)]
                ELSE [content |-> content.items[n], label |-> PyStr(name("item"))]]
        RECURSIVE Each(_, _)
        Each(built, n) ==
            IF n > Len(inner) THEN built
            ELSE Each(_build_tree(built.ctx, built.parent, inner[n].content, inner[n].label), n + 1)
        \* ctx.connect(parent, child); ctx.add_vertex(child)
        Child(built) ==
            [ctx |-> add_vertex(connect(built.ctx, parent, built.parent), built.parent), parent |-> parent]
        Made(made) == [ctx |-> made.ctx, parent |-> made.node]
    IN  IF content.t = "dict" THEN Child(Each(Made(new_node(ctx, name("object"))), 1))
        ELSE IF content.t = "list" THEN Each([ctx |-> ctx, parent |-> parent], 1)
        ELSE IF content.t # "None" /\ label.t # "None"
        THEN [ctx |-> ctx, parent |-> Node_add_attribute(parent, label.s, content)]
        ELSE [ctx |-> ctx, parent |-> parent]

Json_link_cross_references_Skipped(ctx) == ctx

\* JsonTreeLoader._link_cross_references: the whole value is one name
Json_link_cross_references(ctx) == LinkReferences(ctx, FALSE)

\* JsonTreeLoader.load
JsonTreeLoader_load(json_string, uid) ==
    LET Return(ctx) == LoadResult(NoExc, ctx.vertices, ctx.edges, ctx.uid)
        \* the root is the object held at ctx.vertices[0]: what the build gave it shows there
        Link(tree) == Return(Json_link_cross_references([tree.ctx EXCEPT !.vertices[1] = tree.parent]))
        Build(parsed, root) ==
            Link(_build_tree(add_vertex(root.ctx, root.node), root.node, parsed.value, JsonNone))
        Parsed(parsed) ==
            IF parsed.exc # NoExc THEN LoadResult(parsed.exc, <<>>, <<>>, uid)
            ELSE Build(parsed, new_node(_BuildContext(uid), "ROOT"))
    IN  Parsed(json_loads(json_string))

(***************************************************************************)
(* plugins/datasources/xml: XmlTreeLoader                                  *)
(*                                                                         *)
(* An element is its tag, its attributes in order, its text (the text      *)
(* before its first child) and its children.  The XML texts have elements, *)
(* double-quoted attributes and text: no declaration, comment, entity,     *)
(* namespace or CDATA section.                                             *)
(***************************************************************************)
Element(tag, attrib, text, children) ==
    [tag |-> tag, attrib |-> attrib, text |-> text, children |-> children]

\* ETree.fromstring(text): the root element, or exc = "ValueError" for the ParseError that
\* load turns into ValueError("Invalid XML input: ...")
fromstring(text) ==
    LET Fail == [ok |-> FALSE, element |-> Element("", <<>>, "", <<>>), next |-> 0]
        Ok(element, next) == [ok |-> TRUE, element |-> element, next |-> next]
        RECURSIVE Skip(_)
        Skip(i) == IF i <= Len(text) /\ IsSpaceChar(CharAt(text, i)) THEN Skip(i + 1) ELSE i
        RECURSIVE NameEnd(_)
        NameEnd(i) ==
            IF i <= Len(text) /\ Contains(WordChars \o "-", CharAt(text, i)) THEN NameEnd(i + 1) ELSE i
        Name(i) == SubSeq(text, i, NameEnd(i) - 1)
        \* the position of the first "<" at or after i, 0 when there is none
        Lt(i) == IndexOf(text, "<", i)
        RECURSIVE Open(_), Attributes(_, _, _), Content(_, _), Children(_, _)
        \* <tag ...
        Open(i) ==
            IF ~StartsWithAt(text, i, "<") \/ NameEnd(i + 1) = i + 1 THEN Fail
            ELSE Attributes(NameEnd(i + 1), Name(i + 1), <<>>)
        \* name="value" ... > or />
        Attributes(i, tag, attrib) ==
            IF StartsWithAt(text, Skip(i), "/>") THEN Ok(Element(tag, attrib, "", <<>>), Skip(i) + 2)
            ELSE IF StartsWithAt(text, Skip(i), ">")
            THEN (IF Lt(Skip(i) + 1) = 0 THEN Fail
                  ELSE Children(Lt(Skip(i) + 1),
                                Element(tag, attrib, SubSeq(text, Skip(i) + 1, Lt(Skip(i) + 1) - 1), <<>>)))
            ELSE IF \/ Skip(i) = i
                    \/ NameEnd(Skip(i)) = Skip(i)
                    \/ ~StartsWithAt(text, NameEnd(Skip(i)), "=" \o DQ)
                    \/ IndexOf(text, DQ, NameEnd(Skip(i)) + 2) = 0
                    \/ \E n \in 1..Len(attrib) : attrib[n].k = Name(Skip(i))
            THEN Fail
            ELSE Attributes(IndexOf(text, DQ, NameEnd(Skip(i)) + 2) + 1, tag,
                            Append(attrib, [k |-> Name(Skip(i)),
                                            v |-> SubSeq(text, NameEnd(Skip(i)) + 2,
                                                         IndexOf(text, DQ, NameEnd(Skip(i)) + 2) - 1)]))
        \* at a "<" inside an element: its end tag, or one more child and the text after it
        Children(i, element) ==
            IF StartsWithAt(text, i, "</")
            THEN (IF Name(i + 2) = element.tag /\ StartsWithAt(text, Skip(NameEnd(i + 2)), ">")
                  THEN Ok(element, Skip(NameEnd(i + 2)) + 1) ELSE Fail)
            ELSE Content(Open(i), element)
        Content(child, element) ==
            IF ~child.ok \/ Lt(child.next) = 0 THEN Fail
            ELSE Children(Lt(child.next), [element EXCEPT !.children = Append(@, child.element)])
        parsed == Open(1)
    IN  IF parsed.ok /\ Skip(parsed.next) > Len(text)
        THEN [exc |-> NoExc, element |-> parsed.element]
        ELSE [exc |-> "ValueError", element |-> Fail.element]

RECURSIVE _build_tree_from_element(_, _, _)
\* XmlTreeLoader._build_tree_from_element: the context after the call
_build_tree_from_element(ctx, parent, element) ==
    LET RECURSIVE Attrib(_, _)
        \* for attr_name, attr_value in element.attrib.items()
        Attrib(node, n) ==
            IF n > Len(element.attrib) THEN node
            ELSE Attrib(Node_add_attribute(node, element.attrib[n].k, PyStr(element.attrib[n].v)), n + 1)
        Text(node) ==
            IF Strip(element.text) # "" THEN Node_add_attribute(node, "value", PyStr(Strip(element.text)))
            ELSE node
        RECURSIVE Each(_, _, _)
        \* for child in element: self._build_tree_from_element(ctx, current, child)
        Each(c, current, n) ==
            IF n > Len(element.children) THEN c
            ELSE Each(_build_tree_from_element(c, current, element.children[n]), current, n + 1)
        Current(made) ==
            add_vertex(connect(Each(made.ctx, Text(Attrib(made.node, 1)), 1), parent, made.node),
                       Text(Attrib(made.node, 1)))
    IN  Current(new_node(ctx, element.tag))

\* XmlTreeLoader._link_cross_references: the whole value is one name
Xml_link_cross_references(ctx) == LinkReferences(ctx, FALSE)

\* XmlTreeLoader.load
XmlTreeLoader_load(xml_string, uid) ==
    LET Return(ctx) == LoadResult(NoExc, ctx.vertices, ctx.edges, ctx.uid)
        Build(parsed, root) ==
            Return(Xml_link_cross_references(
                       _build_tree_from_element(add_vertex(root.ctx, root.node), root.node, parsed.element)))
        Parsed(parsed) ==
            IF parsed.exc # NoExc THEN LoadResult(parsed.exc, <<>>, <<>>, uid)
            ELSE Build(parsed, new_node(_BuildContext(uid), "ROOT"))
    IN  Parsed(fromstring(xml_string))

(***************************************************************************)
(* The loader instances and the documents they are given                   *)
(***************************************************************************)
\* the loader instances created, and the class of each
LoaderClass ==
    [csv_loader |-> "CsvTreeLoader", json_loader |-> "JsonTreeLoader", xml_loader |-> "XmlTreeLoader"]
Loaders == DOMAIN LoaderClass

CsvDocs ==
    {"name,age\nAlice,30\nBob,25",
     "",
     "  \n ",
     "name,age",
     "name\n,x\n",
     "name,ref\na,a",
     "name,ref\na,\nb,c\nc,b",
     "name,ref\n\nb,c\nc,",
     "name,ref\na,\"b, c\"\nb,\nc,",
     "name,ref\na,\"b,,c,\"\nb,\nc,",
     "name,ref\na,\"b,b\"\nb,",
     "name,ref,link\na,b,b\nb,,",
     "name,id,ref\nx,b,\nb,,\na,,b",
     "name,node_id,REF \nx,7,\ny,, 7 "}

JsonDocs ==
    {"{\"a\":{\"ref\":\"b\"},\"b\":{\"id\":\"b\"}}",
     "{\"a\":{\"ref\":\"b, c\"},\"b\":{},\"c\":{}}",
     "{\"a\":{\"ref\":\"a\"}}",
     "{\"a\":{\"ref\":\"b\",\"link\":\"b\",\"b\":{}}}",
     "{\"x\":{\"id\":\"b\"},\"b\":{},\"a\":{\"ref\":\"b\"}}",
     "{\"n\":{\"id\":7},\"a\":{\"ref\":\"7\"}}",
     "{\"a\":{\"ref\":\"\"}}",
     "{\"a\":{\"Ref\":\"b\"},\"b\":{}}",
     "{\"a\": [{\"k\": true}, {\"k\": null}], \"f\": 2.5}",
     "[1,2]",
     "5",
     "{\"a\":"}

XmlDocs ==
    {"<a ref=\"b\"><b/></a>",
     "<a ref=\"a\"/>",
     "<r><a ref=\"b, c\"/><b/><c/></r>",
     "<r><a ref=\"b\"/><b/></r>",
     "<r><a Ref=\"b\"/><b/></r>",
     "<r><x id=\"b\"/><b/><a ref=\"b\"/></r>",
     "<a ref=\"b\" link=\"b\"><b/></a>",
     "<a> hi <b>t</b> tail</a>",
     "<a><b></a>",
     "<a"}

\* the documents a loader of the class is given
Docs(class) ==
    IF class = "CsvTreeLoader" THEN CsvDocs ELSE IF class = "JsonTreeLoader" THEN JsonDocs ELSE XmlDocs

\* loader.load(content) for a loader of the class whose counter stands at uid
load(class, content, uid) ==
    IF class = "CsvTreeLoader" THEN CsvTreeLoader_load(content, uid)
    ELSE IF class = "JsonTreeLoader" THEN JsonTreeLoader_load(content, uid)
    ELSE XmlTreeLoader_load(content, uid)

\* the resolver of the class
_link_cross_references(class, ctx) ==
    IF class = "CsvTreeLoader" THEN Csv_link_cross_references(ctx)
    ELSE IF class = "JsonTreeLoader" THEN Json_link_cross_references(ctx)
    ELSE Xml_link_cross_references(ctx)

(***************************************************************************)
(* workspace_service.py: WorkspaceService                                  *)
(*                                                                         *)
(* One workspace exists; its graph is (nodes, edges), its condition lists  *)
(* are searches and filters.  An instance attribute of the service is a    *)
(* record: attr is "unset" until the attribute is first assigned.          *)
(***************************************************************************)
VARIABLES
    nodes,          \* workspace.graph.nodes
    edges,          \* workspace.graph.edges
    searches,       \* workspace.searches
    filters,        \* workspace.filters
    filtered_graph, \* workspace.filtered_graph
    command_error,  \* WorkspaceService.command_error
    _uid,           \* loader._uid of every loader instance: the next value of its itertools.count()
    issued,         \* the node ids of the graphs every loader instance has returned
    calls,          \* the load calls that run side by side: what each has drawn and returned
    last            \* the last call made and what it returned or raised

vars == <<nodes, edges, searches, filters, filtered_graph, command_error, _uid, issued, calls, last>>

MaxConditions == 2

\* the ids under which WorkspaceService._workspaces holds a workspace
WorkspaceIds == {"w1"}
\* the ids a caller may pass
CallerWorkspaceIds == {"w1", "w0"}

AttrUnset == [attr |-> "unset", value |-> ""]
AttrNone == [attr |-> "None", value |-> ""]
AttrStr(text) == [attr |-> "str", value |-> text]

\* WorkspaceService.__init__ assigns _workspaces only: command_service is never assigned
command_service == AttrUnset

\* the two load calls that may run side by side, none of them started
Calls == {"first", "second"}
NoCalls == [call \in Calls |-> [state |-> "idle", loader |-> "", content |-> "", drawn |-> <<>>,
                                 nodes |-> <<>>, edges |-> <<>>]]

Call(op, command, workspace_id, r, ret) ==
    [op |-> op, command |-> command, workspace_id |-> workspace_id, exc |-> r.exc, msg |-> r.msg,
     command_type |-> r.command_type, data |-> r.data, ret |-> ret]

NoResult == [exc |-> NoExc, msg |-> "", command_type |-> "", data |-> None]

Init ==
    /\ nodes = <<>>
    /\ edges = <<>>
    /\ searches = <<>>
    /\ filters = <<>>
    /\ filtered_graph = GraphObject
    /\ command_error = AttrUnset
    /\ _uid = [loader \in Loaders |-> 0]
    /\ issued = [loader \in Loaders |-> {}]
    /\ calls = NoCalls
    /\ last = Call("init", "", "", NoResult, None)

Parsed(command, r) ==
    /\ nodes' = r.nodes
    /\ edges' = r.edges
    /\ last' = Call("parse_command", command, "", r, None)
    /\ UNCHANGED <<searches, filters, filtered_graph, command_error, _uid, issued, calls>>

\* CommandService.parse_command(command, graph) on the workspace's graph
ParseCommand(command) == Parsed(command, parse(command, nodes, edges))

RECURSIVE AddFilters(_, _)
\* the FILTER branch of _handle_command_result: add_filter_to_workspace for each condition
AddFilters(fs, data) ==
    IF data = <<>> THEN fs
    ELSE AddFilters(Append(fs, FilterCondition(data[1].attribute, data[1].operator, data[1].value)),
                    Tail(data))

ExecutionError_Empty(msg) == ""

\* f"Command execution error: {str(e)}"
ExecutionError(msg) == "Command execution error: " \o msg

\* execute_command from the result of parse_command on: _handle_command_result, or the handlers
\* of ValueError and Exception
Executed(command, workspace_id, r) ==
    /\ nodes' = r.nodes
    /\ edges' = r.edges
    /\ IF r.exc = NoExc /\ r.command_type = "FILTER"
       THEN /\ Len(filters) + Len(r.data) <= MaxConditions
            /\ filters' = AddFilters(filters, r.data)
       ELSE filters' = filters
    /\ IF r.exc = NoExc /\ r.command_type = "SEARCH"
       THEN /\ Len(searches) < MaxConditions
            /\ searches' = Append(searches, SearchCondition(r.data.query))
       ELSE searches' = searches
    /\ command_error' = IF r.exc = NoExc THEN AttrNone
                        ELSE IF r.exc = "ValueError" THEN AttrStr(r.msg)
                        ELSE AttrStr(ExecutionError(r.msg))
    /\ last' = Call("execute_command", command, workspace_id, r, r.exc = NoExc)
    /\ UNCHANGED <<filtered_graph, _uid, issued, calls>>

NoCommandService == "'WorkspaceService' object has no attribute 'command_service'"

\* WorkspaceService.execute_command with _handle_command_result and _refresh_workspace
ExecuteCommand(command, workspace_id) ==
    IF workspace_id \notin WorkspaceIds
    THEN /\ command_error' = AttrStr("Workspace " \o workspace_id \o " not found")
         /\ last' = Call("execute_command", command, workspace_id, NoResult, FALSE)
         /\ UNCHANGED <<nodes, edges, searches, filters, filtered_graph, _uid, issued, calls>>
    ELSE IF command_service.attr = "unset"
    THEN /\ command_error' = AttrStr(ExecutionError(NoCommandService))
         /\ last' = Call("execute_command", command, workspace_id,
                         [NoResult EXCEPT !.exc = "AttributeError", !.msg = NoCommandService], FALSE)
         /\ UNCHANGED <<nodes, edges, searches, filters, filtered_graph, _uid, issued, calls>>
    ELSE Executed(command, workspace_id, parse(command, nodes, edges))

\* WorkspaceService.get_command_error
GetCommandError ==
    /\ last' = IF command_error.attr = "unset"
               THEN Call("get_command_error", "", "",
                         [NoResult EXCEPT !.exc = "AttributeError",
                                          !.msg = "'WorkspaceService' object has no attribute 'command_error'"],
                         AttrUnset)
               ELSE Call("get_command_error", "", "", NoResult, command_error)
    /\ UNCHANGED <<nodes, edges, searches, filters, filtered_graph, command_error, _uid, issued, calls>>

\* WorkspaceService.clear_command_error
ClearCommandError ==
    /\ command_error' = AttrNone
    /\ last' = Call("clear_command_error", "", "", NoResult, AttrNone)
    /\ UNCHANGED <<nodes, edges, searches, filters, filtered_graph, _uid, issued, calls>>

\* the interpreter on the graph of the workspace
Next == \E c \in CommandTexts : ParseCommand(c)

Spec == Init /\ [][Next]_vars

\* the service: commands through execute_command, on a graph built by the interpreter
NextService ==
    \/ \E c \in SetupTexts : ParseCommand(c)
    \/ \E c \in ExecuteTexts, w \in CallerWorkspaceIds : ExecuteCommand(c, w)
    \/ GetCommandError
    \/ ClearCommandError

SpecService == Init /\ [][NextService]_vars

\* the interpreter on the commands of edit node
NextEdit == \E c \in EditCommands : ParseCommand(c)

SpecEdit == Init /\ [][NextEdit]_vars

(***************************************************************************)
(* workspace.py: the operations of one Workspace on a loaded graph         *)
(***************************************************************************)
\* a workspace right after Workspace(workspace_id, graph, name) on a loaded graph
InitWorkspace ==
    /\ \E g \in Graphs : nodes = g.nodes /\ edges = g.edges
    /\ searches = <<>>
    /\ filters = <<>>
    /\ filtered_graph = GraphObject
    /\ command_error = AttrUnset
    /\ _uid = [loader \in Loaders |-> 0]
    /\ issued = [loader \in Loaders |-> {}]
    /\ calls = NoCalls
    /\ last = Call("init", "", "", NoResult, None)

\* Workspace.add_search
AddSearch(query) ==
    /\ Len(searches) + Len(filters) < MaxConditions
    /\ searches' = Append(searches, SearchCondition(query))
    /\ last' = Call("add_search", "", "", [NoResult EXCEPT !.data = [query |-> query]], None)
    /\ UNCHANGED <<nodes, edges, filters, filtered_graph, command_error, _uid, issued, calls>>

\* Workspace.add_filter
AddFilter(attribute, operator, value) ==
    /\ Len(searches) + Len(filters) < MaxConditions
    /\ filters' = Append(filters, FilterCondition(attribute, operator, value))
    /\ last' = Call("add_filter", "", "",
                    [NoResult EXCEPT !.data = [attribute |-> attribute, operator |-> operator, value |-> value]],
                    None)
    /\ UNCHANGED <<nodes, edges, searches, filtered_graph, command_error, _uid, issued, calls>>

\* list.pop(index) under the guard index < len(list) alone: a negative index counts from the end
PopAt_FromTheEnd(conditions, index) ==
    IF 0 <= index /\ index < Len(conditions) THEN RemoveAt(conditions, index + 1)
    ELSE IF index < 0 /\ 0 - index <= Len(conditions) THEN RemoveAt(conditions, Len(conditions) + index + 1)
    ELSE conditions

\* list.pop(index) under the guard 0 <= index < len(list)
PopAt(conditions, index) ==
    IF 0 <= index /\ index < Len(conditions) THEN RemoveAt(conditions, index + 1) ELSE conditions

\* Workspace.remove_search
RemoveSearch(index) ==
    /\ searches' = PopAt(searches, index)
    /\ last' = Call("remove_search", "", "", [NoResult EXCEPT !.data = [index |-> index]], None)
    /\ UNCHANGED <<nodes, edges, filters, filtered_graph, command_error, _uid, issued, calls>>

\* Workspace.remove_filter
RemoveFilter(index) ==
    /\ filters' = PopAt(filters, index)
    /\ last' = Call("remove_filter", "", "", [NoResult EXCEPT !.data = [index |-> index]], None)
    /\ UNCHANGED <<nodes, edges, searches, filtered_graph, command_error, _uid, issued, calls>>

\* a variant that filters the workspace's own graph in place
ApplyFilters_InPlace ==
    /\ filtered_graph' = apply_filters(nodes, edges, searches, filters).graph
    /\ last' = Call("apply_filters", "", "", NoResult, apply_filters(nodes, edges, searches, filters))
    /\ nodes' = IF searches = <<>> /\ filters = <<>> THEN nodes
                ELSE apply_filters(nodes, edges, searches, filters).graph.nodes
    /\ edges' = IF searches = <<>> /\ filters = <<>> THEN edges
                ELSE apply_filters(nodes, edges, searches, filters).graph.edges
    /\ UNCHANGED <<searches, filters, command_error, _uid, issued, calls>>

\* Workspace.apply_filters: the graph returned is the one cached
ApplyFilters ==
    /\ filtered_graph' = apply_filters(nodes, edges, searches, filters).graph
    /\ last' = Call("apply_filters", "", "", NoResult, apply_filters(nodes, edges, searches, filters))
    /\ UNCHANGED <<nodes, edges, searches, filters, command_error, _uid, issued, calls>>

NextWorkspace ==
    \/ \E query \in Queries : AddSearch(query)
    \/ \E f \in FilterPool : AddFilter(f.attribute, f.operator, f.value)
    \/ \E index \in (0 - 1)..MaxConditions : RemoveSearch(index)
    \/ \E index \in (0 - 1)..MaxConditions : RemoveFilter(index)
    \/ ApplyFilters

SpecWorkspace == InitWorkspace /\ [][NextWorkspace]_vars

(***************************************************************************)
(* The loaders: load calls on the loader instances                         *)
(***************************************************************************)
MaxUid == 3

\* load for every class, document and counter value a load starts from
LoadTable ==
    [class \in {LoaderClass[loader] : loader \in Loaders} |->
        [content \in Docs(class) |-> [uid \in 0..(MaxUid - 1) |-> load(class, content, uid)]]]

InitLoader ==
    /\ nodes = <<>>
    /\ edges = <<>>
    /\ searches = <<>>
    /\ filters = <<>>
    /\ filtered_graph = GraphObject
    /\ command_error = AttrUnset
    /\ _uid = [loader \in Loaders |-> 0]
    /\ issued = [loader \in Loaders |-> {}]
    /\ calls = NoCalls
    /\ last = Call("init", "", "", NoResult, None)

\* graph = loader.load(content): nodes and edges are those of the graph returned
LoadReturns(loader, content, r) ==
    /\ _uid' = [_uid EXCEPT ![loader] = r.uid]
    /\ nodes' = IF r.exc = NoExc THEN r.nodes ELSE nodes
    /\ edges' = IF r.exc = NoExc THEN r.edges ELSE edges
    /\ issued' = [issued EXCEPT ![loader] = @ \cup {r.nodes[i].node_id : i \in 1..Len(r.nodes)}]
    /\ last' = Call("load", "", "",
                    [NoResult EXCEPT !.exc = r.exc, !.data = [loader |-> loader, content |-> content]], None)
    /\ UNCHANGED <<searches, filters, filtered_graph, command_error, calls>>

Load(loader, content) ==
    /\ _uid[loader] < MaxUid
    /\ LoadReturns(loader, content, LoadTable[LoaderClass[loader]][content][_uid[loader]])

\* self._link_cross_references(ctx) once more, on the context of the load just made
LinkCrossReferences ==
    /\ last.op = "load"
    /\ last.exc = NoExc
    /\ edges' = _link_cross_references(LoaderClass[last.data.loader],
                                       [uid |-> _uid[last.data.loader], vertices |-> nodes, edges |-> edges]).edges
    /\ last' = Call("_link_cross_references", "", "", [NoResult EXCEPT !.data = last.data], None)
    /\ UNCHANGED <<nodes, searches, filters, filtered_graph, command_error, _uid, issued, calls>>

NextLoader ==
    \/ \E loader \in Loaders : \E content \in Docs(LoaderClass[loader]) : Load(loader, content)
    \/ LinkCrossReferences

SpecLoader == InitLoader /\ [][NextLoader]_vars

(***************************************************************************)
(* graph.py: Node and Edge values in lists, sets and dicts                 *)
(*                                                                         *)
(* nodes is a list of Node values and edges a list of Edge values.  A set  *)
(* or a dict built from a list keeps, for every key, the hash it had when  *)
(* it was inserted; a key is found when a kept hash equals its hash and    *)
(* the kept key equals it.  Equal strings hash equally and distinct        *)
(* strings are taken to hash differently.                                  *)
(***************************************************************************)
MaxNodes == 2

\* Node.__str__
Node_str(node) == node.node_id \o ": " \o node.name

\* Node.__hash__: hash(str(self))
Node_hash(node) == Node_str(node)

\* node in list: some item is the node or equals it
ListContains(seq, node) == \E i \in 1..Len(seq) : NodeEq(seq[i], node)

\* node in set / node in dict: a kept key with the hash of the node equals it
HashContains(keys, node) ==
    \E i \in 1..Len(keys) : keys[i].hash = Node_hash(node) /\ NodeEq(keys[i].key, node)

RECURSIVE HashKeys(_)
\* set(seq) / dict.fromkeys(seq): every item is added unless it is found
HashKeys(seq) ==
    IF seq = <<>> THEN <<>>
    ELSE LET keys == HashKeys(SubSeq(seq, 1, Len(seq) - 1))
             node == seq[Len(seq)]
         IN  IF HashContains(keys, node) THEN keys ELSE Append(keys, [hash |-> Node_hash(node), key |-> node])

\* the Node values built: Node(name, node_id)
NodeValues ==
    {Node(1, "a", "1"), Node(2, "b", "1"), Node(3, "a: b", "1"), Node(4, "b", "1: a")}

AttributeNames == {"k", "j"}
AttributeValues == {"x", "y"}

\* nodes.append(node)
PutNode(node) ==
    /\ Len(nodes) < MaxNodes
    /\ nodes' = Append(nodes, node)
    /\ last' = Call("put", "", "", [NoResult EXCEPT !.data = [node |-> node]], None)
    /\ UNCHANGED <<edges, searches, filters, filtered_graph, command_error, _uid, issued, calls>>

\* edges.append(Edge(nodes[0], nodes[-1], DIRECTED))
PutEdge ==
    /\ nodes # <<>>
    /\ edges = <<>>
    /\ edges' = <<Edge(nodes[1], nodes[Len(nodes)], DIRECTED)>>
    /\ last' = Call("put_edge", "", "", NoResult, None)
    /\ UNCHANGED <<nodes, searches, filters, filtered_graph, command_error, _uid, issued, calls>>

\* node == nodes[0], node in nodes, node in set(nodes), node in dict.fromkeys(nodes)
Lookup(node) ==
    /\ nodes # <<>>
    /\ last' = Call("lookup", "", "", [NoResult EXCEPT !.data = [node |-> node]],
                    [eq |-> NodeEq(node, nodes[1]), list |-> ListContains(nodes, node),
                     set |-> HashContains(HashKeys(nodes), node),
                     dict |-> HashContains(HashKeys(nodes), node)])
    /\ UNCHANGED <<nodes, edges, searches, filters, filtered_graph, command_error, _uid, issued, calls>>

\* the Node and Edge objects the attribute calls are made on: nodes[0] and edges[0]
Held(kind) == IF kind = "Node" THEN nodes ELSE edges

\* Node.add_attribute / Edge.add_attribute on the first node or edge
AddAttribute(kind, atr, value) ==
    /\ Held(kind) # <<>>
    /\ nodes' = IF kind = "Node" THEN [nodes EXCEPT ![1].attributes = add_attribute(@, atr, value)] ELSE nodes
    /\ edges' = IF kind = "Edge" THEN [edges EXCEPT ![1].attributes = add_attribute(@, atr, value)] ELSE edges
    /\ last' = Call("add_attribute", "", "",
                    [NoResult EXCEPT !.data = [kind |-> kind, atr |-> atr, value |-> value,
                                               before |-> Held(kind)[1].attributes]], None)
    /\ UNCHANGED <<searches, filters, filtered_graph, command_error, _uid, issued, calls>>

\* Node.remove_attribute / Edge.remove_attribute on the first node or edge
RemoveAttribute(kind, atr) ==
    /\ Held(kind) # <<>>
    /\ nodes' = IF kind = "Node"
                THEN [nodes EXCEPT ![1].attributes = remove_attribute(@, atr).attributes] ELSE nodes
    /\ edges' = IF kind = "Edge"
                THEN [edges EXCEPT ![1].attributes = remove_attribute(@, atr).attributes] ELSE edges
    /\ last' = Call("remove_attribute", "", "",
                    [NoResult EXCEPT !.exc = remove_attribute(Held(kind)[1].attributes, atr).exc,
                                     !.msg = remove_attribute(Held(kind)[1].attributes, atr).msg,
                                     !.data = [kind |-> kind, atr |-> atr,
                                               before |-> Held(kind)[1].attributes]], None)
    /\ UNCHANGED <<searches, filters, filtered_graph, command_error, _uid, issued, calls>>

NextModels ==
    \/ \E node \in NodeValues : PutNode(node)
    \/ PutEdge
    \/ \E node \in NodeValues : Lookup(node)
    \/ \E kind \in {"Node", "Edge"}, atr \in AttributeNames, value \in AttributeValues :
           AddAttribute(kind, atr, value)
    \/ \E kind \in {"Node", "Edge"}, atr \in AttributeNames : RemoveAttribute(kind, atr)

SpecModels == Init /\ [][NextModels]_vars

(***************************************************************************)
(* workspace.py: the condition lists of a workspace on its own             *)
(***************************************************************************)
NextConditions ==
    \/ \E query \in Queries : AddSearch(query)
    \/ \E f \in FilterPool : AddFilter(f.attribute, f.operator, f.value)
    \/ \E index \in (0 - 1)..MaxConditions : RemoveSearch(index)
    \/ \E index \in (0 - 1)..MaxConditions : RemoveFilter(index)

SpecConditions == Init /\ [][NextConditions]_vars

(***************************************************************************)
(* cli_service.py: commands the parser rejects, on graphs built by         *)
(* commands it accepts                                                      *)
(***************************************************************************)
NextRejected == \E c \in BuildCommands \cup RejectedCommands : ParseCommand(c)

SpecRejected == Init /\ [][NextRejected]_vars

(***************************************************************************)
(* A session on one workspace: commands on its graph, condition changes    *)
(* and apply_filters, in any order                                         *)
(***************************************************************************)
\* nodes whose values were turned into int where the text is an int literal
StrNodes_Coerced(ns) ==
    [i \in 1..Len(ns) |->
        [ns[i] EXCEPT !.attributes =
            [k \in DOMAIN ns[i].attributes |->
                IF int(ns[i].attributes[k]).exc = NoExc THEN int(ns[i].attributes[k]).value
                ELSE PyStr(ns[i].attributes[k])]]]

\* the nodes as apply_filters reads them: every value the interpreter stored is a str
StrNodes(ns) ==
    [i \in 1..Len(ns) |->
        [ns[i] EXCEPT !.attributes = [k \in DOMAIN ns[i].attributes |-> PyStr(ns[i].attributes[k])]]]

SessionQueries == {"3"}

SessionFilters == {FilterCondition("age", ">", "28"), FilterCondition("age", "==", "30")}

\* Workspace.apply_filters on a graph written by the interpreter
ApplyFiltersOnSession ==
    /\ filtered_graph' = apply_filters(StrNodes(nodes), edges, searches, filters).graph
    /\ last' = Call("apply_filters", "", "", NoResult, apply_filters(StrNodes(nodes), edges, searches, filters))
    /\ UNCHANGED <<nodes, edges, searches, filters, command_error, _uid, issued, calls>>

\* the conditions a session holds at a time
MaxSessionConditions == 1

NextSession ==
    \/ \E c \in SessionCommands : ParseCommand(c)
    \/ \E query \in SessionQueries :
           Len(searches) + Len(filters) < MaxSessionConditions /\ AddSearch(query)
    \/ \E f \in SessionFilters :
           Len(searches) + Len(filters) < MaxSessionConditions /\ AddFilter(f.attribute, f.operator, f.value)
    \/ \E index \in 0..(MaxSessionConditions - 1) : RemoveSearch(index)
    \/ \E index \in 0..(MaxSessionConditions - 1) : RemoveFilter(index)
    \/ ApplyFiltersOnSession

SpecSession == Init /\ [][NextSession]_vars

(***************************************************************************)
(* Two load calls side by side on one loader instance                      *)
(*                                                                         *)
(* A load call has its own _BuildContext (node and edge lists) and shares  *)
(* the counter of its loader: a step of a call is one next(self._uid_iter) *)
(* of new_node.  What a call builds depends on the numbers it draws only   *)
(* through the ids of its nodes, so the graph it returns is the graph of   *)
(* the same load run alone from 0 with the n-th id it drew in the place of *)
(* n - 1.                                                                  *)
(***************************************************************************)
\* the documents loaded side by side
SharedDocs ==
    [CsvTreeLoader |-> {"name,age\nAlice,30\nBob,25", "name,ref\na,a"},
     JsonTreeLoader |-> {"{\"a\":{\"ref\":\"b\"},\"b\":{\"id\":\"b\"}}", "{\"a\":{\"ref\":\"a\"}}"},
     XmlTreeLoader |-> {"<r><a ref=\"b\"/><b/></r>", "<a ref=\"a\"/>"}]

\* the load of a call, run alone from 0
Alone(call) == LoadTable[LoaderClass[call.loader]][call.content][0]

\* the graph of a load that drew every id from a counter of its own
Renumber_OwnCounter(ns, es, drawn) == [nodes |-> ns, edges |-> es]

\* the graph of a load run alone with the ids the call drew: Node(name, str(next(self._uid_iter)))
Renumber(ns, es, drawn) ==
    [nodes |-> [i \in 1..Len(ns) |-> [ns[i] EXCEPT !.node_id = IdOf(drawn[ns[i].oid + 1])]],
     edges |-> [i \in 1..Len(es) |->
                   [es[i] EXCEPT !.source.node_id = IdOf(drawn[es[i].source.oid + 1]),
                                 !.destination.node_id = IdOf(drawn[es[i].destination.oid + 1])]]]

\* loader.load(content) is entered: ctx = _BuildContext(uid=self._uid)
BeginLoad(call, loader, content) ==
    /\ calls[call].state = "idle"
    /\ \A other \in Calls : calls[other].state # "idle" => calls[other].loader = loader
    /\ calls' = [calls EXCEPT ![call] = [@ EXCEPT !.state = "running", !.loader = loader, !.content = content]]
    /\ last' = Call("begin_load", "", "", [NoResult EXCEPT !.data = [call |-> call]], None)
    /\ UNCHANGED <<nodes, edges, searches, filters, filtered_graph, command_error, _uid, issued>>

\* one new_node of the call: the next number of the loader's counter
DrawId(call) ==
    /\ calls[call].state = "running"
    /\ Len(calls[call].drawn) < Alone(calls[call]).uid
    /\ calls' = [calls EXCEPT ![call].drawn = Append(@, _uid[calls[call].loader])]
    /\ _uid' = [_uid EXCEPT ![calls[call].loader] = @ + 1]
    /\ last' = Call("new_node", "", "", [NoResult EXCEPT !.data = [call |-> call]], None)
    /\ UNCHANGED <<nodes, edges, searches, filters, filtered_graph, command_error, issued>>

\* the call returns Graph(ctx.vertices, ctx.edges)
Returned(call, graph) ==
    /\ calls' = [calls EXCEPT ![call] = [@ EXCEPT !.state = "done", !.nodes = graph.nodes, !.edges = graph.edges]]
    /\ nodes' = graph.nodes
    /\ edges' = graph.edges
    /\ issued' = [issued EXCEPT ![calls[call].loader] = @ \cup {graph.nodes[i].node_id : i \in 1..Len(graph.nodes)}]
    /\ last' = Call("load", "", "",
                    [NoResult EXCEPT !.data = [loader |-> calls[call].loader, content |-> calls[call].content,
                                               call |-> call]], None)
    /\ UNCHANGED <<searches, filters, filtered_graph, command_error, _uid>>

ReturnLoad(call) ==
    /\ calls[call].state = "running"
    /\ Len(calls[call].drawn) = Alone(calls[call]).uid
    /\ Returned(call, Renumber(Alone(calls[call]).nodes, Alone(calls[call]).edges, calls[call].drawn))

NextShared ==
    \/ \E call \in Calls, loader \in Loaders :
           \E content \in SharedDocs[LoaderClass[loader]] : BeginLoad(call, loader, content)
    \/ \E call \in Calls : DrawId(call)
    \/ \E call \in Calls : ReturnLoad(call)

SpecShared == InitLoader /\ [][NextShared]_vars

(***************************************************************************)
(* Properties of the interpreter (specification Spec)                      *)
(***************************************************************************)
NodeIdsOf(ns) == {ns[i].node_id : i \in 1..Len(ns)}

HasEdgeOn(es, src_id, dst_id) ==
    \E i \in 1..Len(es) : es[i].source.node_id = src_id /\ es[i].destination.node_id = dst_id

IsIncident(es, node_id) ==
    \E i \in 1..Len(es) : es[i].source.node_id = node_id \/ es[i].destination.node_id = node_id

\* the step taken is a call of parse_command
ParseStep == last'.op = "parse_command"
ParseFails == ParseStep /\ last'.exc # NoExc

\* C1: a command that ends in an error leaves the node sequence, the edge sequence and every
\* attribute map and direction as they were before the call.
C1_FailingCommandLeavesGraph ==
    [][ParseFails => (nodes' = nodes /\ edges' = edges)]_vars

\* C2: referential integrity: every edge has both endpoint ids among the ids of the nodes,
\* after any sequence of successful or failing commands.
C2_ReferentialIntegrity ==
    \A i \in 1..Len(edges) :
        /\ edges[i].source.node_id \in NodeIdsOf(nodes)
        /\ edges[i].destination.node_id \in NodeIdsOf(nodes)

C2_Witness ==
    /\ last.op = "parse_command"
    /\ last.command = "delete node --id=b"
    /\ last.exc # NoExc
    /\ HasEdgeOn(edges, "a", "b")

\* the delete node commands issued, with the id each names
DeleteNodeTexts ==
    { [text |-> "delete node --id=a", id |-> "a"],
      [text |-> "delete node --id=b", id |-> "b"],
      [text |-> "delete node --id=c", id |-> "c"] }

\* C7: delete node --id=X fails when an edge has X as its source or destination, and then the
\* node and edge sequences are unchanged; when no edge is incident to X and X exists it
\* removes exactly node X and no edge.
C7_DeleteNode ==
    [][\A d \in DeleteNodeTexts :
         (ParseStep /\ last'.command = d.text) =>
            /\ IsIncident(edges, d.id) =>
                  (last'.exc # NoExc /\ nodes' = nodes /\ edges' = edges)
            /\ (~IsIncident(edges, d.id) /\ d.id \in NodeIdsOf(nodes)) =>
                  /\ last'.exc = NoExc
                  /\ edges' = edges
                  /\ nodes' = SelectSeq(nodes, LAMBDA n : n.node_id # d.id)
                  /\ Len(nodes') = Len(nodes) - 1]_vars

C7_Witness ==
    /\ last.op = "parse_command"
    /\ last.command = "delete node --id=a"
    /\ last.exc # NoExc
    /\ IsIncident(edges, "a")
    /\ "a" \in NodeIdsOf(nodes)

\* the create edge commands issued, with their positional ids and the --undirected flag
CreateEdgeTexts ==
    { [text |-> "create edge a b", positional |-> <<"a", "b">>, undirected |-> FALSE],
      [text |-> "create edge b a", positional |-> <<"b", "a">>, undirected |-> FALSE],
      [text |-> "create edge a b --undirected", positional |-> <<"a", "b">>, undirected |-> TRUE],
      [text |-> "create edge a b --property k=v", positional |-> <<"a", "b">>, undirected |-> FALSE],
      [text |-> "create edge a", positional |-> <<"a">>, undirected |-> FALSE],
      [text |-> "create edge a b c", positional |-> <<"a", "b", "c">>, undirected |-> FALSE],
      [text |-> "create edge a c", positional |-> <<"a", "c">>, undirected |-> FALSE],
      [text |-> "create edge c a", positional |-> <<"c", "a">>, undirected |-> FALSE] }

NoDuplicateEdges(es) ==
    \A i, j \in 1..Len(es) :
        (es[i].source.node_id = es[j].source.node_id
            /\ es[i].destination.node_id = es[j].destination.node_id) => i = j

\* C8: no two edges lie on the same ordered (source id, destination id) pair; create edge A B
\* fails and keeps the edge count when an edge from A to B exists, whatever flags it carries,
\* and create edge B A is accepted when only the edge from A to B exists.
C8_NoDuplicateEdge ==
    /\ []NoDuplicateEdges(edges)
    /\ [][\A c \in CreateEdgeTexts :
            (ParseStep /\ last'.command = c.text /\ Len(c.positional) = 2) =>
               /\ HasEdgeOn(edges, c.positional[1], c.positional[2]) =>
                     (last'.exc # NoExc /\ Len(edges') = Len(edges))
               /\ (/\ ~HasEdgeOn(edges, c.positional[1], c.positional[2])
                   /\ HasEdgeOn(edges, c.positional[2], c.positional[1])) =>
                     (last'.exc = NoExc /\ Len(edges') = Len(edges) + 1)]_vars

C8_Witness ==
    /\ last.op = "parse_command"
    /\ last.command = "create edge a b --undirected"
    /\ last.exc # NoExc
    /\ HasEdgeOn(edges, "a", "b")
    /\ HasEdgeOn(edges, "b", "a")

\* the create node commands issued that carry an id
CreateNodeTexts ==
    { [text |-> "create node --id=a", id |-> "a"],
      [text |-> "create node --id=a --property k=v", id |-> "a"],
      [text |-> "Create Node --id=b", id |-> "b"] }

UniqueNodeIds(ns) == \A i, j \in 1..Len(ns) : ns[i].node_id = ns[j].node_id => i = j

\* C9: node ids stay pairwise distinct; create node --id=X fails and keeps the node count when
\* a node with id X exists.
C9_UniqueNodeIds ==
    /\ []UniqueNodeIds(nodes)
    /\ [][\A c \in CreateNodeTexts :
            (ParseStep /\ last'.command = c.text /\ c.id \in NodeIdsOf(nodes)) =>
               (last'.exc # NoExc /\ Len(nodes') = Len(nodes))]_vars

C9_Witness ==
    /\ last.op = "parse_command"
    /\ last.command = "create node --id=a --property k=v"
    /\ last.exc # NoExc
    /\ "a" \in NodeIdsOf(nodes)
    /\ Len(nodes) = 2

\* the reference to the node of ns that has the given id
RefOf(ns, node_id) ==
    LET n == CHOOSE m \in {ns[i] : i \in 1..Len(ns)} : m.node_id = node_id
    IN  [oid |-> n.oid, node_id |-> n.node_id]

\* C10: create edge fails and adds no edge when an id is not the id of a node or when the
\* positional ids are not exactly two; when it succeeds it appends exactly one edge whose
\* source and destination are the existing node objects with those ids, DIRECTED by default
\* and UNDIRECTED with --undirected.
C10_CreateEdge ==
    [][\A c \in CreateEdgeTexts :
         (ParseStep /\ last'.command = c.text) =>
            /\ (\/ Len(c.positional) # 2
                \/ \E i \in 1..Len(c.positional) : c.positional[i] \notin NodeIdsOf(nodes)) =>
                  (last'.exc # NoExc /\ edges' = edges)
            /\ last'.exc = NoExc =>
                  /\ Len(edges') = Len(edges) + 1
                  /\ SubSeq(edges', 1, Len(edges)) = edges
                  /\ edges'[Len(edges')].source = RefOf(nodes, c.positional[1])
                  /\ edges'[Len(edges')].destination = RefOf(nodes, c.positional[2])
                  /\ edges'[Len(edges')].direction = (IF c.undirected THEN UNDIRECTED ELSE DIRECTED)
                  /\ nodes' = nodes]_vars

C10_Witness ==
    /\ last.op = "parse_command"
    /\ last.command = "create edge a b --undirected"
    /\ last.exc = NoExc
    /\ Len(edges) = 2
    /\ edges[2].direction = UNDIRECTED
    /\ edges[2].source.node_id = "a"
    /\ edges[2].destination.node_id = "b"

\* the filter commands issued that are well formed, with the clauses each one carries
FilterTexts ==
    { [text |-> "filter age > 28",
       clauses |-> <<[attribute |-> "age", operator |-> ">", value |-> "28"]>>],
      [text |-> "filter a=1 b!=2",
       clauses |-> <<[attribute |-> "a", operator |-> "==", value |-> "1"],
                     [attribute |-> "b", operator |-> "!=", value |-> "2"]>>] }

\* C5: filter turns each clause attr op value into one FilterCondition with attribute attr,
\* operator op (a bare = stored as ==) and value the literal, in clause order, and the graph
\* is not mutated.
C5_FilterConditionFields ==
    \A f \in FilterTexts :
        (last.op = "parse_command" /\ last.command = f.text) =>
            /\ last.exc = NoExc
            /\ Len(last.data) = Len(f.clauses)
            /\ \A i \in 1..Len(f.clauses) :
                  /\ last.data[i].attribute = f.clauses[i].attribute
                  /\ last.data[i].operator = f.clauses[i].operator
                  /\ last.data[i].value = f.clauses[i].value

\* C6: a quoted value is taken whole: name == "John Smith" gives one FilterCondition whose
\* value is John Smith, the quotes removed and nothing dropped.
C6_QuotedValueWhole ==
    (last.op = "parse_command" /\ last.command = "filter name == \"John Smith\"") =>
        /\ last.exc = NoExc
        /\ Len(last.data) = 1
        /\ last.data[1].attribute = "name"
        /\ last.data[1].value = "John Smith"

(***************************************************************************)
(* Properties of the service (specification SpecService)                   *)
(***************************************************************************)
ExecuteStep == last'.op = "execute_command"

\* C3: execute_command with a valid command and the id of an existing workspace returns true
\* and the graph, or the search or filter list, reflects the command.
C3_ValidCommandSucceeds ==
    [][(/\ ExecuteStep
        /\ last'.workspace_id \in WorkspaceIds
        /\ parse(last'.command, nodes, edges).exc = NoExc) =>
           /\ last'.ret = TRUE
           /\ nodes' = parse(last'.command, nodes, edges).nodes
           /\ edges' = parse(last'.command, nodes, edges).edges]_vars

EditEdgeTexts ==
    { [text |-> "edit edge a b --undirected", src |-> "a", dst |-> "b", flag |-> "--undirected"],
      [text |-> "edit edge a b --directed", src |-> "a", dst |-> "b", flag |-> "--directed"],
      [text |-> "edit edge a b --property k=v", src |-> "a", dst |-> "b", flag |-> ""],
      [text |-> "edit edge a b --unset-property k", src |-> "a", dst |-> "b", flag |-> ""] }

DirectionAfter(flag, direction) ==
    IF flag = "--undirected" THEN UNDIRECTED
    ELSE IF flag = "--directed" THEN DIRECTED
    ELSE direction

\* C11: edit edge <src> <dst> --undirected on an existing edge leaves that edge UNDIRECTED,
\* --directed leaves it DIRECTED, and an edit edge without either flag keeps its direction.
C11_EditEdgeDirection ==
    [][\A c \in EditEdgeTexts :
         (ParseStep /\ last'.command = c.text /\ last'.exc = NoExc) =>
            /\ Len(edges') = Len(edges)
            /\ \A i \in 1..Len(edges) :
                  (edges[i].source.node_id = c.src /\ edges[i].destination.node_id = c.dst) =>
                      edges'[i].direction = DirectionAfter(c.flag, edges[i].direction)]_vars

\* the two halves of C11 that the code does keep: --directed and no flag
C11_DirectedAndUnflagged ==
    [][\A c \in {t \in EditEdgeTexts : t.flag # "--undirected"} :
         (ParseStep /\ last'.command = c.text /\ last'.exc = NoExc) =>
            /\ Len(edges') = Len(edges)
            /\ \A i \in 1..Len(edges) :
                  (edges[i].source.node_id = c.src /\ edges[i].destination.node_id = c.dst) =>
                      edges'[i].direction = DirectionAfter(c.flag, edges[i].direction)]_vars

(***************************************************************************)
(* edit node: property sets, then unsets                                   *)
(***************************************************************************)
\* the edit node texts; both: the text sets k and unsets k
EditNodeTexts ==
    { [text |-> "edit node --id=a --unset-property k --property k=v", id |-> "a", both |-> TRUE],
      [text |-> "edit node --id=a --property k=v --unset-property k", id |-> "a", both |-> TRUE],
      [text |-> "edit node --id=b --unset-property k --property k=v", id |-> "b", both |-> TRUE],
      [text |-> "edit node --id=c --property k=v --unset-property k", id |-> "c", both |-> TRUE],
      [text |-> "edit node --id=a --property k=w", id |-> "a", both |-> FALSE],
      [text |-> "edit node --id=a --property j=u", id |-> "a", both |-> FALSE],
      [text |-> "edit node --id=a --unset-property j", id |-> "a", both |-> FALSE] }

Without(attributes, atr) == [x \in DOMAIN attributes \ {atr} |-> attributes[x]]

\* C12: edit node --id=X with a set of k and an unset of k, in either order in the text,
\* succeeds on an existing node X and leaves X without k, with every other attribute of X
\* and every other node as before; any edit node --id=X fails, changing nothing, when no
\* node has id X.
C12_EditNodeSetsThenUnsets ==
    [][\A c \in EditNodeTexts :
         (ParseStep /\ last'.command = c.text) =>
            /\ c.id \notin NodeIdsOf(nodes) =>
                  (last'.exc # NoExc /\ nodes' = nodes /\ edges' = edges)
            /\ (c.id \in NodeIdsOf(nodes) /\ c.both) =>
                  /\ last'.exc = NoExc
                  /\ edges' = edges
                  /\ Len(nodes') = Len(nodes)
                  /\ \A i \in 1..Len(nodes) :
                        IF nodes[i].node_id = c.id
                        THEN nodes'[i] = [nodes[i] EXCEPT !.attributes = Without(@, "k")]
                        ELSE nodes'[i] = nodes[i]]_vars

\* node a lost k and kept j = u through an edit that names the unset before the set, while
\* node b still has its own k
C12_Witness ==
    /\ last.op = "parse_command"
    /\ last.command = "edit node --id=a --unset-property k --property k=v"
    /\ last.exc = NoExc
    /\ \E i \in 1..Len(nodes) :
          /\ nodes[i].node_id = "a"
          /\ DOMAIN nodes[i].attributes = {"j"}
          /\ nodes[i].attributes["j"] = "u"
    /\ \E i \in 1..Len(nodes) :
          /\ nodes[i].node_id = "b"
          /\ "k" \in DOMAIN nodes[i].attributes

(***************************************************************************)
(* Properties of Workspace.apply_filters (specification SpecWorkspace)     *)
(***************************************************************************)
\* the state is the one left by a call of apply_filters, which changes neither the graph nor
\* the condition lists: the call's inputs are read from the state, its result from last.ret
AfterApply == last.op = "apply_filters"

\* the node and edge sequences of a Graph object, read through the workspace graph when the
\* object is the workspace graph itself
NodesOf(g) == IF g.id = "graph" THEN nodes ELSE g.nodes
EdgesOf(g) == IF g.id = "graph" THEN edges ELSE g.edges

\* C13: with no search and no filter, apply_filters returns the workspace's own graph object
\* and an empty error list, and the cached filtered graph is that object.
C13_NoConditionsSameGraph ==
    (AfterApply /\ searches = <<>> /\ filters = <<>>) =>
          /\ last.ret.graph = GraphObject
          /\ last.ret.errors = <<>>
          /\ filtered_graph = GraphObject

\* apply_filters ran with both lists empty on a graph that has nodes and edges
C13_Witness ==
    /\ last.op = "apply_filters"
    /\ searches = <<>> /\ filters = <<>>
    /\ filtered_graph = GraphObject
    /\ Len(nodes) > 0 /\ Len(edges) > 0

SearchFields(node) ==
    {Lower(node.name), Lower(node.node_id)}
        \cup {Lower(a) : a \in DOMAIN node.attributes}
        \cup {Lower(str(node.attributes[a])) : a \in DOMAIN node.attributes}

\* the pairs (node, lower-cased query) in which the query is a substring of a field
SearchHits ==
    {h \in NodePool \X {Lower(q) : q \in Queries} :
        \E field \in SearchFields(h[1]) : IsSubstring(h[2], field)}

\* C15: with at least one search and no filter, the returned nodes are exactly the nodes of
\* the graph, in order, for which every lower-cased query is a substring of the lower-cased
\* name, id, or string form of an attribute name or value.
C15_SearchSemantics ==
    (AfterApply /\ searches # <<>> /\ filters = <<>>) =>
          /\ last.ret.errors = <<>>
          /\ \A k \in 1..Len(searches) : searches[k].query \in {Lower(q) : q \in Queries}
          /\ NodesOf(last.ret.graph) =
                SelectSeq(nodes, LAMBDA node :
                    \A k \in 1..Len(searches) : <<node, searches[k].query>> \in SearchHits)

\* two searches, one written in upper case, kept the two nodes that match both (one of them
\* through an attribute name and value only) and dropped a node that matches one of them
C15_Witness ==
    /\ last.op = "apply_filters"
    /\ filters = <<>>
    /\ searches = <<SearchCondition("BO"), SearchCondition("o")>>
    /\ Len(nodes) = 4
    /\ NodeIdsOf(last.ret.graph.nodes) = {"6", "4"}

\* the number of positions of a sequence that satisfy a test
CountOf(seq, Test(_)) == Cardinality({i \in 1..Len(seq) : Test(seq[i])})

\* the call applied exactly one filter and no search
AfterSingleFilter == AfterApply /\ searches = <<>> /\ Len(filters) = 1

\* C16: a node without the attribute named by a filter is excluded by that filter's pass and
\* adds no message, whatever the operator and the literal: with one filter, no node lacking
\* the attribute is returned, and there are no more messages than nodes having the attribute.
C16_AbsentAttributeExcluded ==
    AfterSingleFilter =>
          /\ \A i \in 1..Len(nodes) :
                filters[1].attribute \notin DOMAIN nodes[i].attributes =>
                    nodes[i].node_id \notin NodeIdsOf(NodesOf(last.ret.graph))
          /\ Len(last.ret.errors) <=
                CountOf(nodes, LAMBDA node : filters[1].attribute \in DOMAIN node.attributes)

\* a filter on an attribute no node has: nothing returned, no message, on a graph with nodes
C16_Witness ==
    /\ last.op = "apply_filters"
    /\ searches = <<>>
    /\ filters = <<FilterCondition("height", ">", "28")>>
    /\ Len(nodes) > 0
    /\ last.ret.graph.nodes = <<>>
    /\ last.ret.errors = <<>>

OrderingOperators == {">", "<", ">=", "<="}

\* C17: an ordering operator on an attribute holding a string or a boolean always excludes
\* the node and adds one message; == and != never add an operator message for any type.
C17_OrderingNeedsNumber ==
    AfterSingleFilter =>
          /\ filters[1].operator \in OrderingOperators =>
                /\ \A i \in 1..Len(nodes) :
                      (/\ filters[1].attribute \in DOMAIN nodes[i].attributes
                       /\ nodes[i].attributes[filters[1].attribute].t \in {"str", "bool"}) =>
                          nodes[i].node_id \notin NodeIdsOf(NodesOf(last.ret.graph))
                /\ Len(last.ret.errors) >=
                      CountOf(nodes, LAMBDA node :
                          /\ filters[1].attribute \in DOMAIN node.attributes
                          /\ node.attributes[filters[1].attribute].t \in {"str", "bool"})
          /\ filters[1].operator \in {"==", "!="} =>
                \A k \in 1..Len(last.ret.errors) :
                    ~StartsWith(last.ret.errors[k], "Operator ")

\* the parts of C17 that the code keeps: strings under an ordering operator, and == and !=
C17_StringsAndEquality ==
    AfterSingleFilter =>
          /\ filters[1].operator \in OrderingOperators =>
                /\ \A i \in 1..Len(nodes) :
                      (/\ filters[1].attribute \in DOMAIN nodes[i].attributes
                       /\ nodes[i].attributes[filters[1].attribute].t = "str") =>
                          nodes[i].node_id \notin NodeIdsOf(NodesOf(last.ret.graph))
                /\ Len(last.ret.errors) >=
                      CountOf(nodes, LAMBDA node :
                          /\ filters[1].attribute \in DOMAIN node.attributes
                          /\ node.attributes[filters[1].attribute].t = "str")
          /\ filters[1].operator \in {"==", "!="} =>
                \A k \in 1..Len(last.ret.errors) :
                    ~StartsWith(last.ret.errors[k], "Operator ")

\* the age of a node is an int or a float above 28
IsNumberAbove28(node) ==
    /\ "age" \in DOMAIN node.attributes
    /\ node.attributes["age"].t \in {"int", "float"}
    /\ node.attributes["age"].num > 28 * node.attributes["age"].den

\* the age of a node is there and is not an int or a float
HasUnorderedAge(node) ==
    /\ "age" \in DOMAIN node.attributes
    /\ node.attributes["age"].t \notin {"int", "float"}

\* C18: with the single filter age > 28 the returned nodes are exactly the nodes whose age is
\* a number above 28, and each node whose age cannot be compared adds exactly one message
\* and is excluded, without effect on the other nodes.
C18_AgeAbove28 ==
    (AfterSingleFilter /\ filters[1] = FilterCondition("age", ">", "28")) =>
          /\ NodesOf(last.ret.graph) = SelectSeq(nodes, IsNumberAbove28)
          /\ Len(last.ret.errors) = CountOf(nodes, HasUnorderedAge)

\* C18 on the graphs in which no age is a boolean
C18_WithoutBooleanAge ==
    (/\ AfterSingleFilter
        /\ filters[1] = FilterCondition("age", ">", "28")
        /\ \A i \in 1..Len(nodes) :
              "age" \in DOMAIN nodes[i].attributes => nodes[i].attributes["age"].t # "bool") =>
          /\ NodesOf(last.ret.graph) = SelectSeq(nodes, IsNumberAbove28)
          /\ Len(last.ret.errors) = CountOf(nodes, HasUnorderedAge)

\* the pairs (node, filter) in which the node has the filter's attribute and the cast of the
\* literal to the attribute's type fails or the operator is not accepted for that type
FailingPairs ==
    {p \in NodePool \X FilterPool :
        /\ p[2].attribute \in DOMAIN p[1].attributes
        /\ LET v == p[1].attributes[p[2].attribute]
           IN  \/ v.t = "int" /\ int(p[2].value).exc # NoExc
               \/ v.t = "float" /\ float(p[2].value).exc # NoExc
               \/ /\ p[2].operator \notin {"==", "!="}
                  /\ ~(p[2].operator \in OrderingOperators /\ IsOrdered(v))}

\* the nodes that reach the pass of filter k: they survived the searches and filters 1..k-1
ReachPass(k) == FilterPasses(SearchPasses(nodes, searches), SubSeq(filters, 1, k - 1), <<>>).nodes

\* the messages of the pass of filter k, one for each failing node that reaches it, in order
ExpectedPass(k) ==
    LET failing == SelectSeq(ReachPass(k), LAMBDA node : <<node, filters[k]>> \in FailingPairs)
    IN  [i \in 1..Len(failing) |-> FilterTable[failing[i], filters[k]].error]

RECURSIVE ExpectedErrors(_)
ExpectedErrors(k) == IF k = 0 THEN <<>> ELSE ExpectedErrors(k - 1) \o ExpectedPass(k)

\* C19: apply_filters always returns a graph and an error list, never an exception, and the
\* error list holds exactly one message for each (filter, node) in which the node reached the
\* filter's pass, has the attribute, and the cast or the operator check failed, ordered by
\* filter position and then by node order; every message is a non-empty text.
C19_ErrorsCollected ==
    AfterApply =>
          /\ last.exc = NoExc
          /\ last.ret.errors = ExpectedErrors(Len(filters))
          /\ \A i \in 1..Len(last.ret.errors) : last.ret.errors[i] # NoneStr
          /\ \A p \in FailingPairs : FilterTable[p[1], p[2]].error # NoneStr

\* two filters: the first pass reports a string age and drops it, the second reports the two
\* numeric ages that reached it; three messages in that order
C19_Witness ==
    /\ last.op = "apply_filters"
    /\ searches = <<>>
    /\ filters = <<FilterCondition("age", ">", "28"), FilterCondition("age", "<=", "old")>>
    /\ Len(nodes) = 4
    /\ last.ret.errors = << "Operator '>' not supported for type str.",
                            "Invalid filter value 'old' for attribute 'age' (expected int).",
                            "Invalid filter value 'old' for attribute 'age' (expected float)." >>

\* the value a boolean attribute is compared with
Truthy(literal) == Lower(literal) \in {"true", "1", "yes"}

\* C20: for a boolean attribute the literal is cast to true exactly when it is true, 1 or yes
\* in any letter case and to false otherwise, without a message: under == (and !=) a node
\* whose attribute is a boolean is returned exactly when its value equals (differs from) that
\* cast, and the messages never outnumber the nodes whose attribute is not a boolean.
C20_BooleanCoercion ==
    (AfterSingleFilter /\ filters[1].operator \in {"==", "!="}) =>
          /\ \A i \in 1..Len(nodes) :
                (/\ filters[1].attribute \in DOMAIN nodes[i].attributes
                 /\ nodes[i].attributes[filters[1].attribute].t = "bool") =>
                    ((nodes[i].node_id \in NodeIdsOf(NodesOf(last.ret.graph)))
                        <=> (((nodes[i].attributes[filters[1].attribute].num = 1) = Truthy(filters[1].value))
                                <=> (filters[1].operator = "==")))
          /\ Len(last.ret.errors) <=
                CountOf(nodes, LAMBDA node :
                    /\ filters[1].attribute \in DOMAIN node.attributes
                    /\ node.attributes[filters[1].attribute].t # "bool")

\* flag == maybe kept the one node whose flag is false and reported nothing
C20_Witness ==
    /\ last.op = "apply_filters"
    /\ searches = <<>>
    /\ filters = <<FilterCondition("flag", "==", "maybe")>>
    /\ Len(nodes) = 4
    /\ NodeIdsOf(last.ret.graph.nodes) = {"2"}
    /\ last.ret.errors = <<>>

(***************************************************************************)
(* The workspace's graph under the condition operations (SpecWorkspace)    *)
(***************************************************************************)
ConditionOps == {"add_search", "add_filter", "remove_search", "remove_filter", "apply_filters"}

\* C21: add_search, add_filter, remove_search, remove_filter and apply_filters leave the node
\* sequence, the edge sequence and every attribute map of the workspace's graph as they were,
\* and apply_filters leaves both condition lists as they were.
C21_ConditionsLeaveGraph ==
    [][(last'.op \in ConditionOps => nodes' = nodes /\ edges' = edges)
       /\ (last'.op = "apply_filters" => searches' = searches /\ filters' = filters)]_vars

\* a filtered graph smaller than the workspace's graph was built from two conditions
C21_Witness ==
    /\ AfterApply
    /\ Len(searches) + Len(filters) = 2
    /\ filtered_graph.id = "filtered"
    /\ Len(filtered_graph.nodes) < Len(nodes)
    /\ Len(nodes) = 4

(***************************************************************************)
(* Properties of the loaders (specification SpecLoader)                    *)
(***************************************************************************)
\* the step taken is a load that returned a graph
LoadStep == last'.op = "load" /\ last'.exc = NoExc

\* the state is the one right after a load that returned a graph
AfterLoad == last.op = "load" /\ last.exc = NoExc

LoadedIds(ns) == {ns[i].node_id : i \in 1..Len(ns)}

\* C22: the node ids of one loader instance come from one counter that is never reset: every
\* id of a graph it returns is, as an integer, greater than every id of the graphs it returned
\* before, no id is repeated within the graph, and the first id an instance issues is 0.
C22_IdsFromOneCounter ==
    [][LoadStep =>
        /\ \A new \in LoadedIds(nodes') : \A old \in issued[last'.data.loader] : StrToNat(new) > StrToNat(old)
        /\ Cardinality(LoadedIds(nodes')) = Len(nodes')
        /\ (issued[last'.data.loader] = {} /\ nodes' # <<>> => "0" \in LoadedIds(nodes'))]_vars

\* a loader that already returned a graph returns one more, whose ROOT is not 0, while
\* another loader instance has issued its own 0
C22_Witness ==
    /\ AfterLoad
    /\ nodes # <<>>
    /\ nodes[1].name = "ROOT"
    /\ nodes[1].node_id # "0"
    /\ "0" \in issued[last.data.loader]
    /\ \E other \in Loaders \ {last.data.loader} : "0" \in issued[other]

\* the edges of es from the node src_id to the node dst_id
EdgesOn(es, src_id, dst_id) ==
    {i \in 1..Len(es) : es[i].source.node_id = src_id /\ es[i].destination.node_id = dst_id}

\* C23: in every graph a load returns, an ordered pair (source, target) of nodes is joined by
\* at most one edge.
C23_OneEdgePerPair ==
    AfterLoad => \A src \in LoadedIds(nodes), dst \in LoadedIds(nodes) : Cardinality(EdgesOn(edges, src, dst)) <= 1

\* the class of the loader of the last call
LastClass == LoaderClass[last.data.loader]

\* the graphs in which no reference attribute names a node hold one edge per pair: the
\* structural edges alone are never repeated
C23_TreeEdgesOnce ==
    AfterLoad /\ (\A i \in 1..Len(nodes) : \A key \in DOMAIN nodes[i].attributes : Lower(Strip(key)) \notin Keywords)
        => \A src \in LoadedIds(nodes), dst \in LoadedIds(nodes) : Cardinality(EdgesOn(edges, src, dst)) <= 1

\* C24: a second run of _link_cross_references on a build context on which it has run adds no
\* edge: the edge sequence is the same after it.
C24_SecondRunAddsNothing ==
    [][last'.op = "_link_cross_references" => edges' = edges]_vars

\* the second run leaves the nodes alone and keeps the edges of the first run, in their order
C24_SecondRunKeepsEdges ==
    [][last'.op = "_link_cross_references" =>
        nodes' = nodes /\ Len(edges') >= Len(edges) /\ SubSeq(edges', 1, Len(edges)) = edges]_vars

\* C25: the resolver adds no edge from a node to itself, in any of the three loaders.
C25_NoSelfLoop ==
    AfterLoad => \A i \in 1..Len(edges) : edges[i].source.node_id # edges[i].destination.node_id

\* the names looked up
ReferenceTokens == {"a", "b", "c", "7"}

\* the positions of the nodes whose name is the token, ignoring case
MatchesByName(ns, token) == {i \in 1..Len(ns) : Lower(ns[i].name) = Lower(Strip(token))}

\* the positions of the nodes whose attribute attr is the token, ignoring case
MatchesByAttribute(ns, attr, token) ==
    {i \in 1..Len(ns) : attr \in DOMAIN ns[i].attributes
                        /\ Lower(Strip(str(ns[i].attributes[attr]))) = Lower(Strip(token))}

\* the target is of the first kind of match that any node offers: name, then id, then node_id
IsPriorityTarget(ns, token, target) ==
    IF MatchesByName(ns, token) # {} THEN target \in MatchesByName(ns, token)
    ELSE IF MatchesByAttribute(ns, "id", token) # {} THEN target \in MatchesByAttribute(ns, "id", token)
    ELSE IF MatchesByAttribute(ns, "node_id", token) # {} THEN target \in MatchesByAttribute(ns, "node_id", token)
    ELSE target = 0

\* C26: a reference token resolves to a node matched by name if any node's name is the token;
\* only if none is, to a node whose id attribute is the token; only if none is, to a node whose
\* node_id attribute is the token.
C26_NameBeforeIdBeforeNodeId ==
    AfterLoad => \A token \in ReferenceTokens : IsPriorityTarget(nodes, token, _find_by_name(nodes, token))

\* the node returned does match the token, by its name or by one of the two attributes, and
\* None is returned only when no node matches
C26_TargetMatches ==
    AfterLoad => \A token \in ReferenceTokens :
        IF _find_by_name(nodes, token) = 0
        THEN MatchesByName(nodes, token) \cup MatchesByAttribute(nodes, "id", token)
                \cup MatchesByAttribute(nodes, "node_id", token) = {}
        ELSE _find_by_name(nodes, token) \in
                MatchesByName(nodes, token) \cup MatchesByAttribute(nodes, "id", token)
                    \cup MatchesByAttribute(nodes, "node_id", token)

\* the trimmed, non-empty parts of a reference value split on commas
TokensOf(attr_val) ==
    LET parts == Split(attr_val, ",")
    IN  {Strip(parts[i]) : i \in {j \in 1..Len(parts) : Strip(parts[j]) # ""}}

\* the values of the string attributes of the node whose key is a reference keyword
ReferenceValues(node) ==
    {node.attributes[key].s : key \in {k \in DOMAIN node.attributes :
                                           node.attributes[k].t = "str" /\ Lower(Strip(k)) \in Keywords}}

\* every token of every reference attribute of every node that names a node has its edge
EveryTokenLinked(ns, es) ==
    \A i \in 1..Len(ns) : \A attr_val \in ReferenceValues(ns[i]) : \A token \in TokensOf(attr_val) :
        _find_by_name(ns, token) # 0
            => EdgesOn(es, ns[i].node_id, ns[_find_by_name(ns, token)].node_id) # {}

\* C27: in each of the three loaders a string reference attribute is split on commas into
\* trimmed, non-empty tokens, each resolved on its own: every token that names a node gives an
\* edge from the referring node to that node.
C27_TokensResolvedOneByOne ==
    AfterLoad => EveryTokenLinked(nodes, edges)

\* the CSV loader does so
C27_CsvTokensResolved ==
    AfterLoad /\ LastClass = "CsvTreeLoader" => EveryTokenLinked(nodes, edges)

RECURSIVE ReachableFrom(_, _)
\* the ids of the nodes reached from the nodes of seen along the edges, source to destination
ReachableFrom(es, seen) ==
    IF {es[i].destination.node_id : i \in {j \in 1..Len(es) : es[j].source.node_id \in seen}} \subseteq seen
    THEN seen
    ELSE ReachableFrom(es, seen \cup {es[i].destination.node_id :
                                        i \in {j \in 1..Len(es) : es[j].source.node_id \in seen}})

AfterCsvLoad == AfterLoad /\ LastClass = "CsvTreeLoader" /\ nodes # <<>>

\* C28: in every graph the CSV loader returns, every node is reached from ROOT along directed
\* edges.
C28_AllReachableFromRoot ==
    AfterCsvLoad => LoadedIds(nodes) \subseteq ReachableFrom(edges, {nodes[1].node_id})

\* every row node of the graph has an incoming edge
C28_EveryRowHasIncomingEdge ==
    AfterCsvLoad => \A i \in 2..Len(nodes) : \E j \in 1..Len(edges) : edges[j].destination.node_id = nodes[i].node_id

\* the node sequence starts with the node ROOT, whose id is the smallest
RootFirstAndSmallest(ns) ==
    /\ ns # <<>>
    /\ ns[1].name = "ROOT"
    /\ \A i \in 2..Len(ns) : StrToNat(ns[1].node_id) < StrToNat(ns[i].node_id)

\* C29: every graph returned by a load of any loader holds the node ROOT, first in the node
\* sequence and with the smallest id of the graph, empty and blank CSV content included.
C29_RootFirstAndSmallest ==
    AfterLoad => RootFirstAndSmallest(nodes)

\* it does, but for the CSV contents that are empty once stripped
C29_RootUnlessBlankCsv ==
    AfterLoad /\ ~(LastClass = "CsvTreeLoader" /\ Strip(last.data.content) = "") => RootFirstAndSmallest(nodes)

\* the data rows of a CSV text, and the positions of those that are not empty
DataRows(content) == Tail(csv_reader(Strip(content)))
Headers(content) == [i \in 1..Len(csv_reader(Strip(content))[1]) |-> Strip(csv_reader(Strip(content))[1][i])]

RECURSIVE NonEmptyRows(_, _)
NonEmptyRows(rows, i) ==
    IF i > Len(rows) THEN <<>>
    ELSE (IF rows[i] = <<>> THEN <<>> ELSE <<i>>) \o NonEmptyRows(rows, i + 1)

\* the columns of the row that have a header and a non-empty cell
FilledColumns(headers, row) == {c \in 1..Len(row) : c <= Len(headers) /\ row[c] # ""}

\* the attributes of a row node are the header-to-cell pairs of its non-empty cells and row_index
IsRowNode(node, headers, row, row_index) ==
    /\ DOMAIN node.attributes = {headers[c] : c \in FilledColumns(headers, row)} \cup {"row_index"}
    /\ \A c \in FilledColumns(headers, row) : node.attributes[headers[c]] = PyStr(row[c])
    /\ node.attributes["row_index"] = Py("int", row_index, 1)

RowsBecomeNodes(ns, headers, rows, filled) ==
    /\ Len(ns) = 1 + Len(filled)
    /\ \A k \in 1..Len(filled) : IsRowNode(ns[k + 1], headers, rows[filled[k]], filled[k])

AliceAndBob == "name,age\nAlice,30\nBob,25"

AfterAliceAndBob == AfterCsvLoad /\ last.data.content = AliceAndBob

RECURSIVE ObjectKeys(_, _)
ObjectKeys(content, key) ==
    LET RECURSIVE Inner(_)
        Inner(n) ==
            IF n > Len(content.items) THEN <<>>
            ELSE (IF content.t = "dict" THEN ObjectKeys(content.items[n].v, content.items[n].k)
                  ELSE ObjectKeys(content.items[n], key)) \o Inner(n + 1)
    IN  IF content.t = "dict" THEN <<key>> \o Inner(1)
        ELSE IF content.t = "list" THEN Inner(1)
        ELSE <<>>

\* the positions of the nodes of ns with the name given
NamedNodes(ns, name) == {i \in 1..Len(ns) : ns[i].name = name}

AfterJsonLoad == AfterLoad /\ LastClass = "JsonTreeLoader"

RefToB == "{\"a\":{\"ref\":\"b\"},\"b\":{\"id\":\"b\"}}"

\* C31: the JSON loader creates one node for every JSON object of the document, beside ROOT,
\* and the objects that appear under a key are the nodes named by that key; for the document
\* {"a":{"ref":"b"},"b":{"id":"b"}} there is a node named a, a node named b and a DIRECTED
\* edge from the a-node to the b-node.
C31_JsonObjectsAndReference ==
    AfterJsonLoad =>
        LET keys == ObjectKeys(json_loads(last.data.content).value, "")
        IN  /\ Len(nodes) = 1 + Len(keys)
            /\ \A n \in 1..Len(keys) :
                   keys[n] # "" =>
                       Cardinality(NamedNodes(nodes, keys[n])) = Cardinality({m \in 1..Len(keys) : keys[m] = keys[n]})
            /\ last.data.content = RefToB =>
                   /\ NamedNodes(nodes, "a") # {}
                   /\ NamedNodes(nodes, "b") # {}
                   /\ \E i \in NamedNodes(nodes, "a"), j \in NamedNodes(nodes, "b"), e \in 1..Len(edges) :
                          /\ edges[e].source.node_id = nodes[i].node_id
                          /\ edges[e].destination.node_id = nodes[j].node_id
                          /\ edges[e].direction = DIRECTED

\* the document of the example is loaded by a loader that has issued ids before: ROOT, a and
\* b beside the node of the document's own object, and the edge from a to b
C31_Witness ==
    /\ AfterJsonLoad
    /\ last.data.content = RefToB
    /\ Len(nodes) = 4
    /\ nodes[1].node_id # "0"
    /\ \E e \in 1..Len(edges) : \E i \in NamedNodes(nodes, "a"), j \in NamedNodes(nodes, "b") :
           edges[e].source.node_id = nodes[i].node_id /\ edges[e].destination.node_id = nodes[j].node_id

(***************************************************************************)
(* Properties of Node and Edge values (specification SpecModels)           *)
(***************************************************************************)
AfterLookup == last.op = "lookup"

\* a Node with the id of the node looked up was put in the list
SameIdPut == \E i \in 1..Len(nodes) : nodes[i].node_id = last.data.node.node_id

\* a Node with the id and the name of the node looked up was put in the list
SameIdAndNamePut ==
    \E i \in 1..Len(nodes) : nodes[i].node_id = last.data.node.node_id /\ nodes[i].name = last.data.node.name

\* C32: two Node values with the same id are interchangeable for membership and lookup
\* whatever their names and attributes: they compare equal, and a Node is found in a list, in
\* a set and as a dictionary key whenever a Node with the same id was put there.
C32_SameIdInterchangeable ==
    AfterLookup =>
        /\ last.ret.eq = (nodes[1].node_id = last.data.node.node_id)
        /\ SameIdPut => last.ret.list /\ last.ret.set /\ last.ret.dict

\* what holds: equality and list membership go by the id alone, membership in a set or among
\* the keys of a dict needs a Node of the same id and the same name
C32_HashedByIdAndName ==
    AfterLookup =>
        /\ last.ret.eq = (nodes[1].node_id = last.data.node.node_id)
        /\ last.ret.list = SameIdPut
        /\ last.ret.set = SameIdAndNamePut
        /\ last.ret.dict = SameIdAndNamePut

\* the attribute map of the object of the call of the step, before and after it
MapBefore == Held(last'.data.kind)[1].attributes
MapAfter == IF last'.data.kind = "Node" THEN nodes'[1].attributes ELSE edges'[1].attributes

\* the step is a remove_attribute that undoes the add_attribute made just before it on the
\* same object, for a name the map did not hold
UndoesAdd ==
    /\ last.op = "add_attribute"
    /\ last'.op = "remove_attribute"
    /\ last'.data.kind = last.data.kind
    /\ last'.data.atr = last.data.atr
    /\ last.data.atr \notin DOMAIN last.data.before

\* C33: on a Node or an Edge, remove_attribute with a name that is not in the attribute map
\* fails with an error and leaves the map as it was; add_attribute(name, value) followed by
\* remove_attribute(name) on a map that did not hold name gives the map back; add_attribute
\* on a name the map holds replaces its value and changes no other entry.
C33_AttributeMap ==
    [][/\ last'.op = "remove_attribute" /\ last'.data.atr \notin DOMAIN MapBefore
            => last'.exc # NoExc /\ MapAfter = MapBefore /\ nodes' = nodes /\ edges' = edges
       /\ last'.op = "remove_attribute" /\ last'.data.atr \in DOMAIN MapBefore
            => last'.exc = NoExc /\ MapAfter = [k \in DOMAIN MapBefore \ {last'.data.atr} |-> MapBefore[k]]
       /\ UndoesAdd => last'.exc = NoExc /\ MapAfter = last.data.before
       /\ last'.op = "add_attribute"
            => /\ DOMAIN MapAfter = DOMAIN MapBefore \cup {last'.data.atr}
               /\ MapAfter[last'.data.atr] = last'.data.value
               /\ \A k \in DOMAIN MapBefore \ {last'.data.atr} : MapAfter[k] = MapBefore[k]]_vars

\* a remove_attribute has failed on an Edge whose map holds another name, while a Node
\* holds an attribute
C33_Witness ==
    /\ last.op = "remove_attribute"
    /\ last.exc = "KeyError"
    /\ last.data.kind = "Edge"
    /\ last.data.atr = "k"
    /\ DOMAIN edges[1].attributes = {"j"}
    /\ \E i \in 1..Len(nodes) : nodes[i].attributes # EmptyDict

(***************************************************************************)
(* Properties of the condition lists (specification SpecConditions)        *)
(***************************************************************************)
\* after is before with one more item at the end
AppendedTo(before, after) == Len(after) = Len(before) + 1 /\ SubSeq(after, 1, Len(before)) = before

\* after is before without the item at the 0-based position index, the others in their order
DeletedAt(before, after, index) ==
    /\ Len(after) = Len(before) - 1
    /\ \A k \in 1..Len(after) : after[k] = IF k <= index THEN before[k] ELSE before[k + 1]

\* what a removal with the index of the step makes of the list before
RemovedFrom(before, after) ==
    IF 0 <= last'.data.index /\ last'.data.index < Len(before)
    THEN DeletedAt(before, after, last'.data.index)
    ELSE after = before

Verbs == {"create", "edit", "delete", "clear", "filter", "search"}

\* the tokens of the command of the step
StepTokens == Shlex(last'.command).tokens

\* the verb of the tokens is not one of the six
UnknownVerb(t) == lower(t[1]) \notin Verbs

HasTarget(t) == lower(t[1]) \in {"create", "edit", "delete"}

\* a create, edit or delete whose target is missing or is neither node nor edge
UnknownTarget(t) == HasTarget(t) /\ (Len(t) < 2 \/ lower(t[2]) \notin {"node", "edge"})

\* a --property that ends the command or is followed by a token without "="
PropertyWithoutPair(t) ==
    \E i \in 3..Len(t) : t[i] = "--property" /\ (i = Len(t) \/ ~Contains(t[i + 1], "="))

\* an --unset-property that ends the command
UnsetWithoutName(t) == Len(t) >= 3 /\ t[Len(t)] = "--unset-property"

\* a node command without a token --id=...
NodeWithoutId(t) ==
    HasTarget(t) /\ Len(t) >= 2 /\ lower(t[2]) = "node"
        /\ \A i \in 3..Len(t) : ~StartsWith(t[i], "--id=")

IsMalformed(t) ==
    \/ UnknownVerb(t)
    \/ UnknownTarget(t)
    \/ HasTarget(t) /\ (PropertyWithoutPair(t) \/ UnsetWithoutName(t) \/ NodeWithoutId(t))

\* C35: a command whose verb is not one of create, edit, delete, clear, filter, search, or
\* whose create/edit/delete target is neither node nor edge, or whose --property is not
\* followed by a key=value token, or whose --unset-property is not followed by a name, or
\* which lacks a required --id=, is rejected with an error and changes neither the graph nor
\* a condition list.
C35_MalformedRejected ==
    [][ParseStep /\ last'.command \in BuildCommands \cup RejectedCommands /\ IsMalformed(StepTokens)
        => /\ last'.exc # NoExc
           /\ nodes' = nodes
           /\ edges' = edges
           /\ searches' = searches
           /\ filters' = filters]_vars

\* an edit edge with a set of k and an --unset-property without a name has been rejected on
\* a graph that holds the edge from a to b and the nodes a and b
C35_Witness ==
    /\ last.op = "parse_command"
    /\ last.command = "edit edge a b --property k=w --unset-property"
    /\ last.exc = "ValueError"
    /\ Len(nodes) = 2
    /\ Len(edges) = 1
    /\ edges[1].attributes = EmptyDict

(***************************************************************************)
(* Properties of a session (specification SpecSession)                     *)
(***************************************************************************)
\* every node of the graph g is a node of the workspace graph and every edge of g joins the
\* same two nodes as an edge of the workspace graph
WithinGraph(g) ==
    /\ \A i \in 1..Len(NodesOf(g)) : NodesOf(g)[i].node_id \in NodeIdsOf(nodes)
    /\ \A i \in 1..Len(EdgesOf(g)) :
           HasEdgeOn(edges, EdgesOf(g)[i].source.node_id, EdgesOf(g)[i].destination.node_id)

\* C36: in every state reached by commands on the graph, condition additions and removals and
\* apply_filters calls on one workspace, the cached filtered graph holds only nodes and edges
\* that are in the workspace's graph: after a delete edge, a delete node or a clear graph it
\* does not hold what was deleted.
C36_CacheWithinGraph == WithinGraph(filtered_graph)

\* what holds: the filtered graph is within the graph when apply_filters returns it
C36_CacheWithinGraphWhenApplied == AfterApply => WithinGraph(filtered_graph)

(***************************************************************************)
(* Properties of the order of the conditions (specification SpecWorkspace) *)
(***************************************************************************)
\* the sequences that hold the items of seq in another order
Reordered(seq) ==
    {[i \in 1..Len(seq) |-> seq[p[i]]] : p \in Permutations(1..Len(seq))}

\* the nodes of ns that are in kept, in the order of ns
InOrderOf(ns, kept) ==
    SelectSeq(ns, LAMBDA node : \E i \in 1..Len(kept) : kept[i] = node)

\* C37: the nodes that survive apply_filters do not depend on the order of the conditions:
\* with the searches in any order and the filters in any order apply_filters gives the same
\* nodes and the same edges, and the surviving nodes are in the order they have in the
\* workspace graph.
C37_OrderOfConditions ==
    AfterApply =>
        /\ \A ss \in Reordered(searches), fs \in Reordered(filters) :
               /\ NodesOf(apply_filters(nodes, edges, ss, fs).graph) = NodesOf(filtered_graph)
               /\ EdgesOf(apply_filters(nodes, edges, ss, fs).graph) = EdgesOf(filtered_graph)
        /\ NodesOf(filtered_graph) = InOrderOf(nodes, NodesOf(filtered_graph))

\* two filters were applied that give other errors in the other order, and some nodes of
\* the graph survive and some do not
C37_Witness ==
    /\ AfterApply
    /\ Len(filters) = 2
    /\ apply_filters(nodes, edges, searches, <<filters[2], filters[1]>>).errors # last.ret.errors
    /\ filtered_graph.nodes # <<>>
    /\ Len(filtered_graph.nodes) < Len(nodes)

\* the nodes of the graph that hold the attribute age
WithAge == {i \in 1..Len(nodes) : "age" \in DOMAIN nodes[i].attributes}

NotSupported(operator) == "Operator '" \o operator \o "' not supported for type str."

AfterSessionFilter == AfterApply /\ searches = <<>> /\ Len(filters) = 1 /\ filters[1].attribute = "age"

\* C38: the attribute values a command writes are strings: for nodes whose age was set by
\* create node or edit node, a filter with an ordering operator on age excludes every node
\* and reports, for each node that holds age, that the operator is not supported for str,
\* and a filter age == 30 keeps the nodes whose age is the string "30".
C38_CommandValuesAreStrings ==
    AfterSessionFilter =>
        /\ filters[1].operator \in OrderingOperators
            => /\ filtered_graph.nodes = <<>>
               /\ last.ret.errors = [n \in 1..Cardinality(WithAge) |-> NotSupported(filters[1].operator)]
        /\ filters[1].operator = "=="
            => /\ NodeIdsOf(filtered_graph.nodes)
                    = {nodes[i].node_id : i \in {j \in WithAge : nodes[j].attributes["age"] = filters[1].value}}
               /\ last.ret.errors = <<>>

\* age > 28 was applied to a graph in which a holds age = "30" from create node and b holds
\* age = "30.0" from edit node: no node is kept and two errors are reported
C38_Witness ==
    /\ AfterSessionFilter
    /\ filters[1].operator = ">"
    /\ Len(nodes) = 2
    /\ \E i, j \in WithAge : nodes[i].attributes["age"] = "30" /\ nodes[j].attributes["age"] = "30.0"
    /\ Len(last.ret.errors) = 2
    /\ edges # <<>>

(***************************************************************************)
(* Properties of load calls side by side (specification SpecShared)        *)
(***************************************************************************)
Done(call) == calls[call].state = "done"

\* the ids of the graph the call returned, as integers
IdsOf(call) == {StrToNat(calls[call].nodes[i].node_id) : i \in 1..Len(calls[call].nodes)}

\* C39: when two load calls on one loader instance take their ids in any interleaving of
\* single allocations, the node ids of each returned graph are pairwise distinct and the two
\* graphs share no id.
C39_InterleavedIdsDistinct ==
    /\ \A call \in Calls : Done(call) => Cardinality(IdsOf(call)) = Len(calls[call].nodes)
    /\ \A one, other \in Calls : Done(one) /\ Done(other) /\ one # other => IdsOf(one) \cap IdsOf(other) = {}

\* both calls have returned and the ids of the first graph are not consecutive: an id of the
\* second graph lies between two of them
C39_Witness ==
    /\ Done("first")
    /\ Done("second")
    /\ \E low, high \in IdsOf("first") : \E mid \in IdsOf("second") : low < mid /\ mid < high

(***************************************************************************)
(* The tree of a document without reference attributes                     *)
(***************************************************************************)
AfterTreeLoad == AfterLoad /\ LastClass \in {"JsonTreeLoader", "XmlTreeLoader"}

\* the positions of the edges of es that end in the node
Incoming(es, node) == {j \in 1..Len(es) : es[j].destination.oid = node.oid}

\* a tree rooted at the first node, which is named ROOT: no edge into ROOT, one edge into every
\* other node, every node reached from ROOT, one edge less than nodes, every edge DIRECTED
TreeRootedAtRoot(ns, es) ==
    /\ ns[1].name = "ROOT"
    /\ Incoming(es, ns[1]) = {}
    /\ \A i \in 2..Len(ns) : Cardinality(Incoming(es, ns[i])) = 1
    /\ LoadedIds(ns) \subseteq ReachableFrom(es, {ns[1].node_id})
    /\ Len(es) = Len(ns) - 1
    /\ \A j \in 1..Len(es) : es[j].direction = DIRECTED

\* the names of the nodes that the edges into the nodes named name come from
ParentNames(ns, es, name) ==
    {ns[p].name : p \in {q \in 1..Len(ns) : \E i \in NamedNodes(ns, name) :
                                              \E j \in Incoming(es, ns[i]) : es[j].source.oid = ns[q].oid}}

ListOfObjects == "{\"a\": [{\"k\": true}, {\"k\": null}], \"f\": 2.5}"

TextAndChild == "<a> hi <b>t</b> tail</a>"

\* the edge into a node comes from the node of the object or element that holds it
FromStructuralParent ==
    /\ last.data.content = ListOfObjects =>
           ParentNames(nodes, edges, "a") = {"object"} /\ ParentNames(nodes, edges, "object") = {"ROOT"}
    /\ last.data.content = TextAndChild =>
           ParentNames(nodes, edges, "b") = {"a"} /\ ParentNames(nodes, edges, "a") = {"ROOT"}

\* no node of ns has an attribute with one of the names
NoAttributeNamed(ns, names) == \A i \in 1..Len(ns) : DOMAIN ns[i].attributes \cap names = {}

\* no node of ns has an attribute that _link_cross_references takes for a reference: the
\* name stripped and lowered is one of the keywords
NoReferenceAttribute(ns) ==
    \A i \in 1..Len(ns) : \A attr_key \in DOMAIN ns[i].attributes : Lower(Strip(attr_key)) \notin Keywords

\* C40 as stated: a JSON or XML input in which no node has an attribute named ref, refs,
\* parent_ref, child_ref, link or reference loads as a tree rooted at ROOT.
C40_TreeWithoutKeywordNames ==
    AfterTreeLoad /\ NoAttributeNamed(nodes, Keywords) => TreeRootedAtRoot(nodes, edges)

\* C40: a JSON or XML input in which no node has an attribute whose name, stripped and in
\* lower case, is ref, refs, parent_ref, child_ref, link or reference loads as a tree rooted
\* at ROOT: no edge into ROOT, exactly one edge into every other node, every node reached
\* from ROOT, as many edges as nodes minus one, every edge DIRECTED; in the two documents
\* with nesting the edge into a node comes from the node of what holds it.
C40_TreeWithoutReferences ==
    AfterTreeLoad /\ NoReferenceAttribute(nodes) => TreeRootedAtRoot(nodes, edges) /\ FromStructuralParent

\* the document with two objects in a list under a key is loaded by a loader that has loaded
\* before: four nodes, none with a reference attribute, and three edges
C40_Witness ==
    /\ AfterTreeLoad
    /\ NoReferenceAttribute(nodes)
    /\ last.data.content = ListOfObjects
    /\ _uid[last.data.loader] > 4
    /\ Len(nodes) = 4
    /\ Len(edges) = 3

====
